---- MODULE Spec2Model ----
(***************************************************************************)
(* A model of the database container and the executor of metamath-knife   *)
(* (src/src/database.rs).                                                  *)
(*                                                                         *)
(* Two specifications share the module:                                    *)
(*   SpecDb   - the Database pass cache: parse, the six lazy passes, and   *)
(*              callers that keep Arc handles to results;                  *)
(*   SpecExec - the Executor: the job queue, the worker threads, the       *)
(*              promise cells and a client thread that submits and waits.  *)
(* Each specification leaves the other one's variables at their initial    *)
(* values.                                                                 *)
(***************************************************************************)
EXTENDS Integers, Sequences, FiniteSets, TLC

VARIABLES
    \* ---- Database ----
    db,        \* the Database struct: slot name -> Arc (an object id) or None
    heap,      \* type -> object id -> the value behind the Arc (Free when unallocated)
    handles,   \* Arcs held by callers: records [kind, obj, snap], snap the value seen when obtained
    runs,      \* history: pass -> computations of that pass since the last parse
    last,      \* history: pass -> the latest result ever computed (Default: never computed)
    started,   \* history: pass -> tag of the value the pass function started from in
               \*          the call that returned last (NotRun: not computed in that call)
    lastCall,  \* history: the entry point that returned last
    \* ---- Executor ----
    concurrency, \* Executor.concurrency
    queue,       \* the BinaryHeap<Job> behind Executor.mutex: the set of queued job ids
    cvWaiters,   \* worker threads blocked in work_cv.wait
    wpc,         \* worker -> position in the worker loop
    wjob,        \* worker -> the job it has popped (0: none)
    jobs,        \* job id -> [est, outcome] of every job submitted so far (a sequence)
    cell,        \* job id -> the promise's Mutex<Option<thread::Result<RV>>>
    cpc,         \* the client thread: [at, job]
    waitResult,  \* job id -> what Promise::wait gave the client
    execRaised,  \* history: a call of exec unwound instead of returning a promise
    runner,      \* history: job id -> the thread that ran its closure to the end
    firstStarted, \* history: the job whose task started first (0: none yet)
    proms,       \* promise id -> the promise built by new_once / new / map / join
    plog,        \* history: the waits begun and the closures invoked, in order
    ret,         \* what the last call gave when it was a call of a *_result method
    fa, fb,      \* the two formulas the formula operations are applied to
    fres,        \* what the last formula operation gave
    segs,        \* the segments of a segment set in logical order: [id, piece, content]
    order,       \* the SegmentOrder: [ids: the live ids in order, high_water]
    segsOld,     \* history: the segments before the last reparse, the id pairs seen in order
    released,    \* history: the slots a drop of the database released, in order
    nest,        \* worker -> the job its running task queued and waits for
    fc,          \* a third formula, for comparisons in chain
    bld,         \* the FormulaBuilder: [stack, formula, ok]
    bcall        \* history: the last call on the builder, and how each node was made

histVars == <<runs, last, started, lastCall>>
execVars == <<concurrency, queue, cvWaiters, wpc, wjob, jobs, cell, cpc,
              waitResult, execRaised, runner, firstStarted>>
promVars == <<proms, plog>>
fmVars   == <<fa, fb, fres>>
segVars  == <<segs, order, segsOld>>
bldVars  == <<fc, bld, bcall>>
vars     == <<db, heap, handles, runs, last, started, lastCall,
              concurrency, queue, cvWaiters, wpc, wjob, jobs, cell, cpc,
              waitResult, execRaised, runner, firstStarted,
              proms, plog, ret, fa, fb, fres,
              segs, order, segsOld, released, nest, fc, bld, bcall>>

(***************************************************************************)
(* Bounds of the model.                                                    *)
(***************************************************************************)
MaxInput   == 1   \* distinct inputs a parse call may load
MaxHandles == 1   \* Arcs callers hold at one time
MaxConc    == 2   \* largest Executor concurrency
MaxJobs    == 2   \* jobs submitted through exec
MaxProms   == 3   \* promises built outside the executor
MaxJoin    == 2   \* promises given to one join
MaxNodes   == 3   \* nodes of a formula the operations are applied to
MaxPieces  == 2   \* pieces (files) an input may hold
MaxIds     == 4   \* SegmentIds handed out over the reparses
MaxLeaves  == 3   \* leaves on the builder's stack when the calls begin
MaxReduce  == 2   \* calls of reduce made on one builder

(***************************************************************************)
(*                          THE DATABASE                                   *)
(***************************************************************************)
None == 0

\* The passes, and the slot of the Database struct holding each one's current result.
Passes == {"name", "scope", "verify", "outline", "grammar", "stmt_parse"}

CurSlot(p) ==
    CASE p = "name"       -> "nameset"
      [] p = "scope"      -> "scopes"
      [] p = "verify"     -> "verify"
      [] p = "outline"    -> "outline"
      [] p = "grammar"    -> "grammar"
      [] p = "stmt_parse" -> "stmt_parse"

\* The fields of struct Database that hold an Arc or an Option<Arc>.
Slots == {"segments", "prev_nameset", "nameset", "prev_scopes", "scopes",
          "prev_verify", "verify", "outline", "grammar", "stmt_parse"}

\* The type behind each slot's Arc: SegmentSet, Nameset, ScopeResult, VerifyResult,
\* OutlineNode, Grammar, StmtParse.
Kinds == {"segments", "nameset", "scopes", "verify", "outline", "grammar", "stmt_parse"}

KindOf(s) ==
    CASE s = "prev_nameset" -> "nameset"
      [] s = "prev_scopes"  -> "scopes"
      [] s = "prev_verify"  -> "verify"
      [] OTHER              -> s

\* The value behind an Arc is its tag.  For a segment set, the input it was read
\* from (Empty: the empty set of Database::new).  For a pass result, the tag of
\* the segment set it was computed on (Default: a default-constructed result,
\* computed on nothing).
Free    == -1
Default == -2
Empty   == 0

\* Objects are named per type: the database owns at most one object of each type
\* and every handle at most one more.
ObjIds == 1 .. (1 + MaxHandles)

\* A world: the database and the heap, with the history the pass functions write.
World(d, h, r, l, s) ==
    [db |-> d, heap |-> h, runs |-> r, last |-> l, started |-> s]

\* Arc::strong_count: the slots and the callers' handles that point at object o of type k.
strong_count(w, k, o) ==
    Cardinality({s \in Slots : KindOf(s) = k /\ w.db[s] = o})
      + Cardinality({x \in handles : x.kind = k /\ x.obj = o})

\* Arc::new: the lowest unallocated object id of type k.
NewObj(w, k) ==
    CHOOSE o \in ObjIds : w.heap[k][o] = Free /\ \A p \in ObjIds : p < o => w.heap[k][p] # Free

Alloc(w, k, v) == [w EXCEPT !.heap[k][NewObj(w, k)] = v]

\* Arc::make_mut with every Arc shared or not updated in place (never a copy).
make_mut_in_place(w, k, o, locals) == [w |-> w, obj |-> o]

\* Arc::make_mut on an Arc owned by `locals` local variables besides the slots and
\* handles: the object itself when this is the only owner, else a fresh copy.
\* Yields [w, obj].
Arc_make_mut(w, k, o, locals) ==
    IF strong_count(w, k, o) + locals = 1
    THEN [w |-> w, obj |-> o]
    ELSE [w |-> Alloc(w, k, w.heap[k][o]), obj |-> NewObj(w, k)]

\* Option::take().unwrap_or_default() on a previous slot: yields [w, obj], the slot emptied.
take_unwrap_or_default(w, slot) ==
    IF w.db[slot] # None
    THEN [w |-> [w EXCEPT !.db[slot] = None], obj |-> w.db[slot]]
    ELSE [w |-> Alloc(w, KindOf(slot), Default), obj |-> NewObj(w, KindOf(slot))]

\* self.parse_result(): the tag of the current segment set.
parse_result(w) == w.heap["segments"][w.db["segments"]]

\* The pass function proper (Nameset::update, scopeck::scope_check, verify::verify,
\* build_outline, Grammar::new, grammar::parse_statements) run in place on object o
\* of type k, which holds the value it starts from: the result describes the
\* current segments.
RunPass(w, p, k, o) ==
    [w EXCEPT !.heap[k][o] = parse_result(w),
              !.runs[p] = IF @ < 2 THEN @ + 1 ELSE @,
              !.started[p] = w.heap[k][o],
              !.last[p] = parse_result(w)]

\* Sequencing: F applied to the value of x, so that x is computed once.
Then(x, F(_)) == CHOOSE r \in {F(v) : v \in {x}} : TRUE

\* A pass with a previous slot that stores the Arc into the current slot only.
IncrementalPass_current_only(w, p, prev, cur) ==
    Then(take_unwrap_or_default(w, prev), LAMBDA t :
    Then(Arc_make_mut(t.w, cur, t.obj, 1), LAMBDA m :
    [RunPass(m.w, p, cur, m.obj) EXCEPT !.db[cur] = m.obj]))

\* A pass with a previous slot: take previous or default, make_mut, update, store
\* the Arc into both slots.
IncrementalPass(w, p, prev, cur) ==
    Then(take_unwrap_or_default(w, prev), LAMBDA t :
    Then(Arc_make_mut(t.w, cur, t.obj, 1), LAMBDA m :
    [RunPass(m.w, p, cur, m.obj) EXCEPT !.db[prev] = m.obj, !.db[cur] = m.obj]))

\* A pass without a previous slot: a default value, the pass function, Arc::new.
FreshPass(w, p, cur) ==
    Then(NewObj(w, cur), LAMBDA o :
    [RunPass(Alloc(w, cur, Default), p, cur, o) EXCEPT !.db[cur] = o])

name_pass(w) ==
    IF w.db["nameset"] = None
    THEN IncrementalPass(w, "name", "prev_nameset", "nameset")
    ELSE w

scope_pass(w) ==
    IF w.db["scopes"] = None
    THEN Then(name_pass(w), LAMBDA n :
         IncrementalPass(n, "scope", "prev_scopes", "scopes"))
    ELSE w

verify_pass(w) ==
    IF w.db["verify"] = None
    THEN Then(name_pass(w), LAMBDA n :
         Then(scope_pass(n), LAMBDA sc :
         IncrementalPass(sc, "verify", "prev_verify", "verify")))
    ELSE w

outline_pass(w) ==
    IF w.db["outline"] = None
    THEN FreshPass(w, "outline", "outline")
    ELSE w

grammar_pass(w) ==
    IF w.db["grammar"] = None
    THEN Then(name_pass(w), LAMBDA n :
         Then(scope_pass(n), LAMBDA sc :
         FreshPass(sc, "grammar", "grammar")))
    ELSE w

stmt_parse_pass(w) ==
    IF w.db["stmt_parse"] = None
    THEN Then(name_pass(w), LAMBDA n :
         Then(scope_pass(n), LAMBDA sc :
         Then(grammar_pass(sc), LAMBDA g :
         FreshPass(g, "stmt_parse", "stmt_parse"))))
    ELSE w

\* The current slots Database::parse empties.
ParseCleared == {"nameset", "scopes", "verify", "outline", "grammar"}

\* Database::parse emptying the previous slots with the current ones.
parse_clears_previous(w, input) ==
    Then(Arc_make_mut(w, "segments", w.db["segments"], 0), LAMBDA m :
    [m.w EXCEPT !.heap["segments"][m.obj] = input,
                !.db = [s \in Slots |->
                          IF s = "segments" THEN m.obj
                          ELSE IF s = "stmt_parse" THEN m.w.db[s]
                          ELSE None],
                !.runs = [p \in Passes |-> 0]])

\* Database::parse: make_mut on the segment set, read the input, empty the slots.
parse(w, input) ==
    Then(Arc_make_mut(w, "segments", w.db["segments"], 0), LAMBDA m :
    [m.w EXCEPT !.heap["segments"][m.obj] = input,
                !.db = [s \in Slots |->
                          IF s = "segments" THEN m.obj
                          ELSE IF s \in ParseCleared THEN None
                          ELSE m.w.db[s]],
                !.runs = [p \in Passes |-> 0]])

\* Dropping the last Arc to an object frees it.  Object ids are names only: after
\* each call the live objects of a type are renamed 1, 2, ... with the database's
\* own object first and the callers' objects after it in their old order.
DbObj(d, k) ==
    IF d[k] # None THEN d[k]
    ELSE IF k = "nameset" THEN d["prev_nameset"]
    ELSE IF k = "scopes" THEN d["prev_scopes"]
    ELSE IF k = "verify" THEN d["prev_verify"]
    ELSE None

\* The objects of type k that only callers hold.
CallerObjs(d, hs, k) == {x.obj : x \in {y \in hs : y.kind = k}} \ {DbObj(d, k)}

Rename(d, hs, k, o) ==
    IF o = None THEN None
    ELSE IF o = DbObj(d, k) THEN 1
    ELSE (IF DbObj(d, k) = None THEN 0 ELSE 1)
           + Cardinality({x \in CallerObjs(d, hs, k) : x <= o})

CollectDb(d, hs) == [s \in Slots |-> IF d[s] = None THEN None ELSE 1]

CollectHeap(d, h, hs) ==
    [k \in Kinds |-> [n \in ObjIds |->
        IF n = 1 /\ DbObj(d, k) # None THEN h[k][DbObj(d, k)]
        ELSE IF \E o \in CallerObjs(d, hs, k) : Rename(d, hs, k, o) = n
        THEN h[k][CHOOSE o \in CallerObjs(d, hs, k) : Rename(d, hs, k, o) = n]
        ELSE Free]]

CollectHandles(d, hs) ==
    {[kind |-> x.kind, obj |-> Rename(d, hs, x.kind, x.obj), snap |-> x.snap] : x \in hs}

\* In `started`: the pass function did not run in the call.
NotRun == -3

Now == World(db, heap, runs, last, [p \in Passes |-> NotRun])

\* In `ret`: the last call was not of a *_result method; the *_result method of
\* pass p aborted (unwrap on None); it returned the Arc whose value is v.
NoResult       == [of |-> "none", tag |-> "none", val |-> 0]
Aborted(p)     == [of |-> p, tag |-> "abort", val |-> 0]
Returns(p, v)  == [of |-> p, tag |-> "value", val |-> v]

\* The *_result methods with unwrap_or_default in the place of unwrap.
pass_result_or_default(w, p) ==
    IF w.db[CurSlot(p)] = None
    THEN Returns(p, Default)
    ELSE Returns(p, w.heap[CurSlot(p)][w.db[CurSlot(p)]])

\* name_result, scope_result, verify_result, outline_result, grammar_result,
\* stmt_parse_result: self.<field>.as_ref().unwrap().
pass_result(w, p) ==
    IF w.db[CurSlot(p)] = None
    THEN Aborted(p)
    ELSE Returns(p, w.heap[CurSlot(p)][w.db[CurSlot(p)]])

\* One call of a Database method, from the state before to the state after.
Call(after, name) ==
    \E w \in {after} :
    /\ db' = CollectDb(w.db, handles)
    /\ heap' = CollectHeap(w.db, w.heap, handles)
    /\ handles' = CollectHandles(w.db, handles)
    /\ runs' = w.runs
    /\ last' = w.last
    /\ started' = w.started
    /\ lastCall' = name
    /\ ret' = NoResult
    /\ UNCHANGED execVars

CallParse == \E input \in 1 .. MaxInput : Call(parse(Now, input), "parse")
CallNamePass == Call(name_pass(Now), "name")
CallScopePass == Call(scope_pass(Now), "scope")
CallVerifyPass == Call(verify_pass(Now), "verify")
CallOutlinePass == Call(outline_pass(Now), "outline")
CallGrammarPass == Call(grammar_pass(Now), "grammar")
CallStmtParsePass == Call(stmt_parse_pass(Now), "stmt_parse")

\* A call of the *_result method of pass p (&self: the database is left as it is).
CallResult(p) ==
    /\ ret' = pass_result(Now, p)
    /\ lastCall' = "result"
    /\ started' = [q \in Passes |-> NotRun]
    /\ UNCHANGED <<db, heap, handles, runs, last>>
    /\ UNCHANGED execVars

\* The same calls seen by the callers that share Arcs with the database: only the
\* database, the heap and the handles are followed.
Shared(after) ==
    \E w \in {after} :
    /\ db' = CollectDb(w.db, handles)
    /\ heap' = CollectHeap(w.db, w.heap, handles)
    /\ handles' = CollectHandles(w.db, handles)
    /\ UNCHANGED histVars
    /\ UNCHANGED execVars

SharedParse == \E input \in 1 .. MaxInput : Shared(parse(Now, input))
SharedNamePass == Shared(name_pass(Now))
SharedScopePass == Shared(scope_pass(Now))
SharedVerifyPass == Shared(verify_pass(Now))
SharedOutlinePass == Shared(outline_pass(Now))
SharedGrammarPass == Shared(grammar_pass(Now))
SharedStmtParsePass == Shared(stmt_parse_pass(Now))

\* A caller clones the Arc a pass entry point or parse_result returned and keeps it.
Hold ==
    \E k \in Kinds :
        /\ db[k] # None
        /\ Cardinality(handles) < MaxHandles
        /\ handles' = handles \cup {[kind |-> k, obj |-> db[k], snap |-> heap[k][db[k]]]}
        /\ UNCHANGED <<db, heap>>
        /\ UNCHANGED histVars
        /\ UNCHANGED execVars

\* A caller drops an Arc it held.
Release ==
    \E x \in handles :
        /\ db' = CollectDb(db, handles \ {x})
        /\ heap' = CollectHeap(db, heap, handles \ {x})
        /\ handles' = CollectHandles(db, handles \ {x})
        /\ UNCHANGED histVars
        /\ UNCHANGED execVars

\* Database::new: an empty segment set, every pass slot empty.
InitDbVars ==
    /\ db = [s \in Slots |-> IF s = "segments" THEN 1 ELSE None]
    /\ heap = [k \in Kinds |-> [o \in ObjIds |->
                 IF k = "segments" /\ o = 1 THEN Empty ELSE Free]]
    /\ handles = {}
    /\ runs = [p \in Passes |-> 0]
    /\ last = [p \in Passes |-> Default]
    /\ started = [p \in Passes |-> NotRun]
    /\ lastCall = "new"
    /\ ret = NoResult

\* Formula::default().
FormulaDefault == [typecode |-> 0, tree |-> <<>>, root |-> 0, variables |-> {}]

\* Option<Box<Substitutions>>: None, and Some(substitutions).
UnifyNone == [some |-> FALSE, subs |-> <<>>]
UnifySome(subs) == [some |-> TRUE, subs |-> subs]

\* In `fres`: what the last operation on the formulas fa and fb gave.
NoFormula == [none |-> TRUE]
FRes(op, un, out, eqs) == [op |-> op, un |-> un, out |-> out, eqs |-> eqs]
FInit == FRes("init", UnifyNone, NoFormula, <<>>)

\* No formula is being worked on.
InitFormulaIdle ==
    /\ fa = FormulaDefault
    /\ fb = FormulaDefault
    /\ fres = FInit

\* No segment set is being read, no database has been dropped, and no task has
\* queued a job of its own.
InitSegIdle ==
    /\ segs = <<>>
    /\ order = [ids |-> <<>>, high_water |-> 0]
    /\ segsOld = [segs |-> <<>>, before |-> {}]

InitDropIdle == released = <<>>

InitNestIdle == nest = <<>>

\* In `bcall`: no call has been made on the builder.
NoCall == [op |-> "none"]

\* No FormulaBuilder has been constructed and no third formula exists: the
\* three variables hold the "none" tag.
InitBuilderIdle ==
    /\ fc = NoCall
    /\ bld = NoCall
    /\ bcall = NoCall

\* No promise has been built outside the executor.
InitPromIdle ==
    /\ proms = <<>>
    /\ plog = <<>>

InitExecIdle ==
    /\ concurrency = 0
    /\ queue = {}
    /\ cvWaiters = {}
    /\ wpc = <<>>
    /\ wjob = <<>>
    /\ jobs = <<>>
    /\ cell = <<>>
    /\ cpc = [at |-> "idle", job |-> 0]
    /\ waitResult = <<>>
    /\ execRaised = FALSE
    /\ runner = <<>>
    /\ firstStarted = 0

InitDb ==
    /\ InitDbVars /\ InitExecIdle /\ InitPromIdle /\ InitFormulaIdle
    /\ InitSegIdle /\ InitDropIdle /\ InitNestIdle /\ InitBuilderIdle

NextDb ==
    /\ UNCHANGED <<promVars, fmVars, segVars, released, nest, bldVars>>
    /\ \/ CallParse
       \/ CallNamePass
       \/ CallScopePass
       \/ CallVerifyPass
       \/ CallOutlinePass
       \/ CallGrammarPass
       \/ CallStmtParsePass
       \/ \E p \in Passes : CallResult(p)

SpecDb == InitDb /\ [][NextDb]_vars

NextShared ==
    /\ UNCHANGED <<promVars, ret, fmVars, segVars, released, nest, bldVars>>
    /\ \/ SharedParse
       \/ SharedNamePass
       \/ SharedScopePass
       \/ SharedVerifyPass
       \/ SharedOutlinePass
       \/ SharedGrammarPass
       \/ SharedStmtParsePass
       \/ Hold
       \/ Release

SpecShared == InitDb /\ [][NextShared]_vars

(***************************************************************************)
(*                          THE EXECUTOR                                   *)
(***************************************************************************)

\* The estimates callers pass to exec, and how a submitted task ends.
Estimates == {1, 100}
Outcomes  == {"ok", "panic"}

\* The value the task of job j returns when it does not panic.
TaskResult(j) == j

\* Option<thread::Result<RV>> in the promise's mutex, and a poisoned mutex.
CellNone   == [tag |-> "None", val |-> 0]
CellOk(v)  == [tag |-> "Ok", val |-> v]
CellErr    == [tag |-> "Err", val |-> 0]
Poisoned   == [tag |-> "Poisoned", val |-> 0]

\* What Promise::wait gave its caller.
NotWaited   == [tag |-> "NotWaited", val |-> 0]
Returned(v) == [tag |-> "Returned", val |-> v]
Raised      == [tag |-> "Raised", val |-> 0]

\* In `runner`: the job's closure has not run to its end; it ran on the client
\* thread; it ran on a worker thread.
NotRunYet   == [kind |-> "none", id |-> 0]
Client      == [kind |-> "client", id |-> 0]
OnWorker(w) == [kind |-> "worker", id |-> w]

\* Executor::new spawning one thread more than the concurrency.
Workers_one_more(c) == IF c > 1 THEN 1 .. c + 1 ELSE {}

\* Executor::new: the threads spawned for a concurrency.
Workers(c) == IF c > 1 THEN 1 .. c ELSE {}

\* queue_work with the test `concurrency < 1`.
runs_inline_below_one(c) == c < 1

\* queue_work: whether the job runs on the submitting thread.
runs_inline(c) == c <= 1

\* Ord for Job comparing the other way round.
Job_cmp_reversed(a, b) == IF b.est < a.est THEN -1 ELSE IF b.est > a.est THEN 1 ELSE 0

\* Ord for Job with every pair of jobs equal.
Job_cmp_equal(a, b) == 0

\* Ord for Job: jobs compare by their estimate alone.
Job_cmp(a, b) == IF a.est < b.est THEN -1 ELSE IF a.est > b.est THEN 1 ELSE 0

\* BinaryHeap::pop: the jobs of q that pop may return, those no other is greater than.
PopChoices(q) == {j \in q : \A k \in q : Job_cmp(jobs[k], jobs[j]) <= 0}

\* The job closure of exec without catch_unwind: a panic of the task leaves the
\* closure, nothing is stored and the guard is dropped while unwinding.
job_closure_no_catch(j, outcome) ==
    IF outcome = "ok"
    THEN [stored |-> CellOk(TaskResult(j)), escaped |-> FALSE]
    ELSE [stored |-> Poisoned, escaped |-> TRUE]

\* The job closure of exec: the task runs inside catch_unwind and its
\* thread::Result is stored in the cell; no panic leaves the closure.
job_closure(j, outcome) ==
    IF outcome = "ok"
    THEN [stored |-> CellOk(TaskResult(j)), escaped |-> FALSE]
    ELSE [stored |-> CellErr, escaped |-> FALSE]

\* The promise closure of exec never waiting on the condition variable.
wait_blocks_never(c) == FALSE

\* The promise closure of exec: it waits on the condition variable while the cell is None.
wait_blocks(c) == c.tag = "None"

\* The promise closure of exec once it holds a non-None cell: take().unwrap().unwrap().
\* (lock().unwrap() raises on a poisoned mutex, take().unwrap() on None.)
wait_outcome(c) == IF c.tag = "Ok" THEN Returned(c.val) ELSE Raised

\* The worker thread written without `loop`: it ends after its first job.
worker_next_exit(escaped) == "dead"

\* The worker thread after (task.1)(): `loop` takes it back to the queue; a panic
\* that left the job closure would end the thread.
worker_next(escaped) == IF escaped THEN "dead" ELSE "lock"

\* queue_work pushing the job without notifying work_cv.
notify_nobody(ws) == {{}}

\* Condvar::notify_one on work_cv: the waiters it may wake (none when nobody waits).
NotifyOne(ws) == IF ws = {} THEN {{}} ELSE {{w} : w \in ws}

\* The promise mutex of job j is held from the start of its closure to its end.
CellLocked(j) == \E w \in DOMAIN wpc : wpc[w] = "running" /\ wjob[w] = j

Submitted == 1 .. Len(jobs)

\* Executor::exec, with queue_work: run the job here, or push it and notify a worker.
Exec ==
    \E est \in Estimates, outcome \in Outcomes :
        LET j == Len(jobs) + 1 IN
        /\ cpc.at = "idle"
        /\ ~execRaised
        /\ Len(jobs) < MaxJobs
        /\ jobs' = Append(jobs, [est |-> est, outcome |-> outcome])
        /\ waitResult' = Append(waitResult, NotWaited)
        /\ IF runs_inline(concurrency)
           THEN /\ cell' = Append(cell, job_closure(j, outcome).stored)
                /\ execRaised' = job_closure(j, outcome).escaped
                /\ runner' = Append(runner, IF job_closure(j, outcome).escaped THEN NotRunYet ELSE Client)
                /\ firstStarted' = IF firstStarted = 0 THEN j ELSE firstStarted
                /\ UNCHANGED <<queue, cvWaiters, wpc>>
           ELSE /\ cell' = Append(cell, CellNone)
                /\ queue' = queue \cup {j}
                /\ \E woken \in NotifyOne(cvWaiters) :
                      /\ cvWaiters' = cvWaiters \ woken
                      /\ wpc' = [w \in DOMAIN wpc |-> IF w \in woken THEN "lock" ELSE wpc[w]]
                /\ runner' = Append(runner, NotRunYet)
                /\ UNCHANGED <<execRaised, firstStarted>>
        /\ UNCHANGED <<concurrency, wjob, cpc>>
        /\ UNCHANGED <<db, heap, handles, runs, last, started, lastCall>>

\* Promise::wait is called on the promise of job j: the promise closure of exec
\* goes for the promise mutex, which the job closure holds while the task runs.
Wait ==
    \E j \in Submitted :
        /\ cpc.at = "idle"
        /\ waitResult[j] = NotWaited
        /\ cpc' = [at |-> "lock", job |-> j]
        /\ UNCHANGED <<concurrency, queue, cvWaiters, wpc, wjob, jobs, cell, waitResult,
                       execRaised, runner, firstStarted>>
        /\ UNCHANGED <<db, heap, handles, runs, last, started, lastCall>>

\* The client leaves parts.1.wait without a notification (a spurious wakeup).
WaitSpurious ==
    /\ cpc.at = "cvwait"
    /\ cpc' = [cpc EXCEPT !.at = "lock"]
    /\ UNCHANGED <<concurrency, queue, cvWaiters, wpc, wjob, jobs, cell, waitResult,
                   execRaised, runner, firstStarted>>
    /\ UNCHANGED <<db, heap, handles, runs, last, started, lastCall>>

\* The client holds the promise mutex (first, or again after a wakeup) and tests
\* the cell: it waits on the condition variable while the cell is None, else
\* takes the result and returns or raises.
WaitRecheck ==
    LET j == cpc.job IN
    /\ cpc.at = "lock"
    /\ ~CellLocked(j)
    /\ IF wait_blocks(cell[j])
       THEN /\ cpc' = [cpc EXCEPT !.at = "cvwait"]
            /\ UNCHANGED <<cell, waitResult>>
       ELSE /\ waitResult' = [waitResult EXCEPT ![j] = wait_outcome(cell[j])]
            /\ cell' = [cell EXCEPT ![j] = IF @ = Poisoned THEN @ ELSE CellNone]
            /\ cpc' = [at |-> "idle", job |-> 0]
    /\ UNCHANGED <<concurrency, queue, cvWaiters, wpc, wjob, jobs, execRaised,
                   runner, firstStarted>>
    /\ UNCHANGED <<db, heap, handles, runs, last, started, lastCall>>

\* The worker loop reading the greatest job with peek, leaving it in the queue.
WorkerTake_peeks(w) ==
    /\ wpc[w] = "lock"
    /\ IF queue = {}
       THEN /\ wpc' = [wpc EXCEPT ![w] = "cvwait"]
            /\ cvWaiters' = cvWaiters \cup {w}
            /\ UNCHANGED <<queue, wjob>>
       ELSE \E j \in PopChoices(queue) :
            /\ wjob' = [wjob EXCEPT ![w] = j]
            /\ wpc' = [wpc EXCEPT ![w] = "popped"]
            /\ UNCHANGED <<queue, cvWaiters>>
    /\ UNCHANGED <<concurrency, jobs, cell, cpc, waitResult, execRaised, runner, firstStarted>>
    /\ UNCHANGED <<db, heap, handles, runs, last, started, lastCall>>

\* The worker loop under Executor.mutex: wait on work_cv while the queue is empty,
\* else pop the greatest job.
WorkerTake(w) ==
    /\ wpc[w] = "lock"
    /\ IF queue = {}
       THEN /\ wpc' = [wpc EXCEPT ![w] = "cvwait"]
            /\ cvWaiters' = cvWaiters \cup {w}
            /\ UNCHANGED <<queue, wjob>>
       ELSE \E j \in PopChoices(queue) :
            /\ queue' = queue \ {j}
            /\ wjob' = [wjob EXCEPT ![w] = j]
            /\ wpc' = [wpc EXCEPT ![w] = "popped"]
            /\ UNCHANGED cvWaiters
    /\ UNCHANGED <<concurrency, jobs, cell, cpc, waitResult, execRaised, runner, firstStarted>>
    /\ UNCHANGED <<db, heap, handles, runs, last, started, lastCall>>

\* A worker leaves work_cv.wait without a notification (a spurious wakeup) and
\* goes back to test the queue, as a notified worker does.
WorkerSpurious(w) ==
    /\ wpc[w] = "cvwait"
    /\ cvWaiters' = cvWaiters \ {w}
    /\ wpc' = [wpc EXCEPT ![w] = "lock"]
    /\ UNCHANGED <<concurrency, queue, wjob, jobs, cell, cpc, waitResult,
                   execRaised, runner, firstStarted>>
    /\ UNCHANGED <<db, heap, handles, runs, last, started, lastCall>>

\* (task.1)() begins: the job closure locks the promise mutex and the task starts.
WorkerStart(w) ==
    /\ wpc[w] = "popped"
    /\ wpc' = [wpc EXCEPT ![w] = "running"]
    /\ firstStarted' = IF firstStarted = 0 THEN wjob[w] ELSE firstStarted
    /\ UNCHANGED <<concurrency, queue, cvWaiters, wjob, jobs, cell, cpc, waitResult,
                   execRaised, runner>>
    /\ UNCHANGED <<db, heap, handles, runs, last, started, lastCall>>

\* The task ends: the closure stores its result, notifies the promise's condition
\* variable and unlocks; the worker loops.  A panic leaving the closure ends the thread.
WorkerFinish(w) ==
    LET j == wjob[w] IN
    /\ wpc[w] = "running"
    /\ cell' = [cell EXCEPT ![j] = job_closure(j, jobs[j].outcome).stored]
    /\ wpc' = [wpc EXCEPT ![w] = worker_next(job_closure(j, jobs[j].outcome).escaped)]
    /\ IF job_closure(j, jobs[j].outcome).escaped
       THEN UNCHANGED <<runner, cpc>>
       ELSE /\ runner' = [runner EXCEPT ![j] = OnWorker(w)]
            /\ cpc' = IF cpc.at = "cvwait" /\ cpc.job = j
                      THEN [cpc EXCEPT !.at = "lock"] ELSE cpc
    /\ wjob' = [wjob EXCEPT ![w] = 0]
    /\ UNCHANGED <<concurrency, queue, cvWaiters, jobs, waitResult, execRaised,
                   firstStarted>>
    /\ UNCHANGED <<db, heap, handles, runs, last, started, lastCall>>

\* Executor::new(c) for each concurrency up to the bound: the threads are spawned
\* and none has reached the queue yet.
InitExec ==
    /\ InitDbVars
    /\ InitPromIdle
    /\ InitFormulaIdle
    /\ InitSegIdle /\ InitDropIdle /\ InitNestIdle /\ InitBuilderIdle
    /\ concurrency \in 0 .. MaxConc
    /\ queue = {}
    /\ cvWaiters = {}
    /\ wpc = [w \in Workers(concurrency) |-> "lock"]
    /\ wjob = [w \in Workers(concurrency) |-> 0]
    /\ jobs = <<>>
    /\ cell = <<>>
    /\ cpc = [at |-> "idle", job |-> 0]
    /\ waitResult = <<>>
    /\ execRaised = FALSE
    /\ runner = <<>>
    /\ firstStarted = 0

NextExec ==
    /\ UNCHANGED <<promVars, ret, fmVars, segVars, released, nest, bldVars>>
    /\ \/ Exec
       \/ Wait
       \/ WaitSpurious
       \/ WaitRecheck
       \/ \E w \in DOMAIN wpc : WorkerTake(w)
       \/ \E w \in DOMAIN wpc : WorkerSpurious(w)
       \/ \E w \in DOMAIN wpc : WorkerStart(w)
       \/ \E w \in DOMAIN wpc : WorkerFinish(w)

SpecExec == InitExec /\ [][NextExec]_vars

\* The operating system schedules every thread that can run: a worker that can
\* take the queue mutex, start or finish its job does so, and a client that can
\* take the promise mutex does so.  Spurious wakeups and the client's calls of
\* exec and wait are not forced.
FairScheduling ==
    /\ \A w \in 1 .. MaxConc :
          WF_vars(/\ w \in DOMAIN wpc
                  /\ UNCHANGED <<promVars, ret, fmVars, segVars, released, nest, bldVars>>
                  /\ (WorkerTake(w) \/ WorkerStart(w) \/ WorkerFinish(w)))
    /\ WF_vars(UNCHANGED <<promVars, ret, fmVars, segVars, released, nest, bldVars>> /\ WaitRecheck)

SpecExecLive == InitExec /\ [][NextExec]_vars /\ FairScheduling

(***************************************************************************)
(*                 TASKS THAT USE THEIR OWN EXECUTOR                       *)
(*  A task running on a worker calls exec on the executor that runs it and *)
(*  waits for the promise, as a pass called from inside a job would.       *)
(***************************************************************************)

\* In `nest`: the running task has queued nothing; it holds the promise of the
\* job it queued and is at position `at` of the promise closure.
NoChild        == [child |-> 0, at |-> "none"]
Child(j, at)   == [child |-> j, at |-> at]

\* The task on worker w calls exec: queue_work pushes the job (concurrency > 1
\* on a worker) and notifies work_cv; the task then waits for the promise.
TaskExec(w) ==
    \E est \in Estimates, outcome \in Outcomes :
        LET j == Len(jobs) + 1 IN
        /\ wpc[w] = "running"
        /\ nest[w] = NoChild
        /\ Len(jobs) < MaxJobs + concurrency
        /\ jobs' = Append(jobs, [est |-> est, outcome |-> outcome])
        /\ waitResult' = Append(waitResult, NotWaited)
        /\ cell' = Append(cell, CellNone)
        /\ runner' = Append(runner, NotRunYet)
        /\ queue' = queue \cup {j}
        /\ \E woken \in NotifyOne(cvWaiters) :
              /\ cvWaiters' = cvWaiters \ woken
              /\ wpc' = [v \in DOMAIN wpc |-> IF v \in woken THEN "lock" ELSE wpc[v]]
        /\ nest' = [nest EXCEPT ![w] = Child(j, "lock")]
        /\ UNCHANGED <<concurrency, wjob, cpc, execRaised, firstStarted>>
        /\ UNCHANGED <<db, heap, handles, runs, last, started, lastCall>>

\* The task on worker w holds the promise mutex of the job it queued and tests
\* the cell: it waits on the condition variable while the cell is None, else
\* takes the result.
TaskWaitRecheck(w) ==
    LET j == nest[w].child IN
    /\ wpc[w] = "running"
    /\ nest[w].at = "lock"
    /\ ~CellLocked(j)
    /\ IF wait_blocks(cell[j])
       THEN /\ nest' = [nest EXCEPT ![w] = Child(j, "cvwait")]
            /\ UNCHANGED <<cell, waitResult>>
       ELSE /\ waitResult' = [waitResult EXCEPT ![j] = wait_outcome(cell[j])]
            /\ cell' = [cell EXCEPT ![j] = IF @ = Poisoned THEN @ ELSE CellNone]
            /\ nest' = [nest EXCEPT ![w] = Child(j, "done")]
    /\ UNCHANGED <<concurrency, queue, cvWaiters, wpc, wjob, jobs, cpc, execRaised,
                   runner, firstStarted>>
    /\ UNCHANGED <<db, heap, handles, runs, last, started, lastCall>>

\* The task leaves parts.1.wait without a notification (a spurious wakeup).
TaskWaitSpurious(w) ==
    /\ wpc[w] = "running"
    /\ nest[w].at = "cvwait"
    /\ nest' = [nest EXCEPT ![w] = Child(nest[w].child, "lock")]
    /\ UNCHANGED <<concurrency, queue, cvWaiters, wpc, wjob, jobs, cell, cpc, waitResult,
                   execRaised, runner, firstStarted>>
    /\ UNCHANGED <<db, heap, handles, runs, last, started, lastCall>>

\* The task on worker w ends, which it cannot do inside Promise::wait; the job
\* closure's notify_one wakes the task waiting for this job's promise.
TaskFinish(w) ==
    /\ nest[w].at \in {"none", "done"}
    /\ WorkerFinish(w)
    /\ nest' = [v \in DOMAIN nest |->
                   IF v = w THEN NoChild
                   ELSE IF nest[v] = Child(wjob[w], "cvwait")
                             /\ ~job_closure(wjob[w], jobs[wjob[w]].outcome).escaped
                        THEN Child(wjob[w], "lock")
                        ELSE nest[v]]

\* Executor::new(c) with worker threads, none of which has reached the queue yet.
InitReentrant ==
    /\ InitDbVars
    /\ InitPromIdle
    /\ InitFormulaIdle
    /\ InitSegIdle /\ InitDropIdle /\ InitBuilderIdle
    /\ concurrency \in 2 .. MaxConc
    /\ queue = {}
    /\ cvWaiters = {}
    /\ wpc = [w \in Workers(concurrency) |-> "lock"]
    /\ wjob = [w \in Workers(concurrency) |-> 0]
    /\ nest = [w \in Workers(concurrency) |-> NoChild]
    /\ jobs = <<>>
    /\ cell = <<>>
    /\ cpc = [at |-> "idle", job |-> 0]
    /\ waitResult = <<>>
    /\ execRaised = FALSE
    /\ runner = <<>>
    /\ firstStarted = 0

NextReentrant ==
    /\ UNCHANGED <<promVars, ret, fmVars, segVars, released, bldVars>>
    /\ \/ Exec /\ UNCHANGED nest
       \/ \E w \in DOMAIN wpc : WorkerTake(w) /\ UNCHANGED nest
       \/ \E w \in DOMAIN wpc : WorkerSpurious(w) /\ UNCHANGED nest
       \/ \E w \in DOMAIN wpc : WorkerStart(w) /\ UNCHANGED nest
       \/ \E w \in DOMAIN wpc : TaskExec(w)
       \/ \E w \in DOMAIN wpc : TaskWaitRecheck(w)
       \/ \E w \in DOMAIN wpc : TaskWaitSpurious(w)
       \/ \E w \in DOMAIN wpc : TaskFinish(w)

SpecReentrant == InitReentrant /\ [][NextReentrant]_vars

(***************************************************************************)
(*                            PROMISES                                     *)
(*  Promise<T>(Box<dyn FnMut() -> T>) built by new_once, new, map and join. *)
(*  wait(self) consumes the promise, map and join consume their inputs.    *)
(*  A value of type T is a one-element sequence, a Vec<T> a sequence.      *)
(***************************************************************************)

\* The values closures return.
PValues == {1, 2}

\* The function given to map (it tells its result from its argument).
map_fun(x) == x + 10

\* What wait on a promise gave: nothing yet, a value, or a panic.
PNotWaited   == [tag |-> "NotWaited", val |-> <<>>]
PReturned(v) == [tag |-> "Returned", val |-> v]
PRaised      == [tag |-> "Raised", val |-> <<>>]

\* A promise: kind, the promises it consumed (in input order), the value and the
\* outcome of its closure (of its function for map), who owns it, how often its
\* closure (function) was invoked, and what wait on it gave.
Promise(kind, inner, val, out, calls) ==
    [kind |-> kind, inner |-> inner, val |-> val, out |-> out,
     owner |-> "client", calls |-> calls, res |-> PNotWaited]

\* Promise::new_once invoking the closure while constructing the promise.
new_once_eager(val, out) == Promise("once", <<>>, val, out, 1)

\* Promise::new_once (and Promise::new): the closure is kept in funcell.
new_once(val, out) == Promise("once", <<>>, val, out, 0)

\* Promise::map calling the function before it waits the inner promise.
map_calls_first(k) == k = "before"

\* Promise::map: new_once(move || fun(self.wait())), the function is called
\* with the value the inner wait returned.
map_calls_fun(k) == k = "after"

\* Promise::join waiting its parts last to first.
join_order_reversed(n) == [i \in 1 .. n |-> n + 1 - i]

\* Promise::join: promises.into_iter().map(Promise::wait), first to last.
join_order(n) == [i \in 1 .. n |-> i]

\* The log entries: wait began on promise p; the closure (function) of p was invoked.
WaitBegan(p) == [ev |-> "wait", p |-> p]
Invoked(p)   == [ev |-> "call", p |-> p]

\* One invocation of the closure (function) of promise p.
Invoke(st, p) ==
    [ps  |-> [st.ps EXCEPT ![p].calls = IF @ < 2 THEN @ + 1 ELSE @],
     log |-> Append(st.log, Invoked(p))]

\* wait has ended on promise p with result r.
EndWait(st, p, r) ==
    [ps |-> [st.ps EXCEPT ![p].res = r, ![p].owner = "done"], log |-> st.log]

RECURSIVE wait(_, _)
RECURSIVE join_collect(_, _, _, _)

\* The closure of join: the parts are waited in order and their values collected;
\* the panic of a part unwinds through collect, the parts after it are dropped.
join_collect(st, p, i, acc) ==
    LET n == Len(st.ps[p].inner) IN
    IF i > n
    THEN EndWait(st, p, PReturned(acc))
    ELSE LET q  == st.ps[p].inner[join_order(n)[i]]
             s1 == wait(st, q)
         IN  IF s1.ps[q].res.tag = "Returned"
             THEN join_collect(s1, p, i + 1, acc \o s1.ps[q].res.val)
             ELSE EndWait(s1, p, PRaised)

\* Promise::wait on promise p: (self.0)(), all of it on the calling thread.
wait(st, p) ==
    LET s0 == [ps |-> st.ps, log |-> Append(st.log, WaitBegan(p))]
        me == st.ps[p]
    IN  CASE me.kind = "once" ->
               EndWait(Invoke(s0, p), p,
                       IF me.out = "ok" THEN PReturned(<<me.val>>) ELSE PRaised)
          [] me.kind = "map" ->
               LET q  == me.inner[1]
                   sb == IF map_calls_fun("before") THEN Invoke(s0, p) ELSE s0
                   s1 == wait(sb, q)
                   r  == s1.ps[q].res
               IN  IF r.tag # "Returned"
                   THEN EndWait(s1, p, PRaised)
                   ELSE EndWait(IF map_calls_fun("after") THEN Invoke(s1, p) ELSE s1, p,
                                IF me.out = "ok"
                                THEN PReturned(<<map_fun(r.val[1])>>)
                                ELSE PRaised)
          [] me.kind = "join" -> join_collect(s0, p, 1, <<>>)

\* The promises the client still owns, and those among them of the element type.
Owned == {p \in DOMAIN proms : proms[p].owner = "client"}
OwnedT == {p \in Owned : proms[p].kind # "join"}

\* The sequences without repetition of at most MaxJoin members of S.
JoinArgs(S) ==
    {q \in UNION {[1 .. n -> S] : n \in 0 .. MaxJoin} :
        \A i \in DOMAIN q, j \in DOMAIN q : i # j => q[i] # q[j]}

\* The client calls Promise::new_once (Promise::new is new_once(move || value)).
PNewOnce ==
    \E v \in PValues, out \in Outcomes :
        /\ Len(proms) < MaxProms
        /\ proms' = Append(proms, new_once(v, out))
        /\ UNCHANGED plog

\* The client calls p.map(fun): p moves into the new promise.
PMap ==
    \E p \in OwnedT, out \in Outcomes :
        /\ Len(proms) < MaxProms
        /\ proms' = Append([proms EXCEPT ![p].owner = "moved"],
                           Promise("map", <<p>>, 0, out, 0))
        /\ UNCHANGED plog

\* The client calls Promise::join(vec![..]): the parts move into the new promise.
PJoin ==
    \E parts \in JoinArgs(OwnedT) :
        /\ Len(proms) < MaxProms
        /\ proms' = Append([q \in DOMAIN proms |->
                               IF \E i \in DOMAIN parts : parts[i] = q
                               THEN [proms[q] EXCEPT !.owner = "moved"] ELSE proms[q]],
                           Promise("join", parts, 0, "ok", 0))
        /\ UNCHANGED plog

\* The client calls wait on a promise it owns.
PWait ==
    \E p \in Owned :
        LET st == wait([ps |-> proms, log |-> plog], p) IN
        /\ proms' = st.ps
        /\ plog' = st.log

InitProm ==
    /\ InitDbVars /\ InitExecIdle /\ InitPromIdle /\ InitFormulaIdle
    /\ InitSegIdle /\ InitDropIdle /\ InitNestIdle /\ InitBuilderIdle

NextProm ==
    /\ UNCHANGED <<db, heap, handles, histVars, execVars, ret, fmVars>>
    /\ UNCHANGED <<segVars, released, nest, bldVars>>
    /\ \/ PNewOnce
       \/ PMap
       \/ PJoin
       \/ PWait

SpecProm == InitProm /\ [][NextProm]_vars

(***************************************************************************)
(*                            FORMULAS                                     *)
(*  Formula { typecode, tree: Tree<Label>, root, variables: Bitset } and   *)
(*  FormulaBuilder { stack, formula }.  The tree is a table of nodes, each *)
(*  a label with the ordered list of its children's ids; node ids count    *)
(*  from 1 in the order the nodes were added; the bit set is the set of    *)
(*  the ids of the variable nodes.                                         *)
(***************************************************************************)

\* Tree::add_node(label, children): the table with the new node, whose id is its length.
add_node(tree, label, children) == Append(tree, [label |-> label, kids |-> children])

\* Tree::has_children and Tree::children_iter.
has_children(tree, n) == tree[n].kids # <<>>
children(tree, n) == tree[n].kids

\* FormulaBuilder::default().
BuilderDefault == [stack |-> <<>>, formula |-> FormulaDefault, ok |-> TRUE]

\* Formula::is_variable.
is_variable(f, n) == n \in f.variables

\* Formula::sub_formula: the same tree and variables, rooted at node n.
sub_formula(f, n) == [f EXCEPT !.root = n]

\* The largest u8.
U8Max == 255

\* `var_count + offset` on u8 in a build without overflow checks: the sum wraps.
u8_add(a, b) == (a + b) % (U8Max + 1)

\* usize::saturating_sub.
saturating_sub(a, b) == IF a >= b THEN a - b ELSE 0

\* FormulaBuilder::reduce pushing the new node without draining its children
\* from the stack.
reduce_in_no_drain(checks, b, label, var_count, offset, is_var) ==
    LET len == Len(b.stack)
        sum == u8_add(var_count, offset)
        reduce_start == saturating_sub(len, sum)
        reduce_end   == saturating_sub(len, offset)
    IN  IF \/ ~b.ok
           \/ checks /\ var_count + offset > U8Max
           \/ len < sum
           \/ reduce_start > reduce_end
        THEN [b EXCEPT !.ok = FALSE]
        ELSE LET kids   == SubSeq(b.stack, reduce_start + 1, reduce_end)
                 new_id == Len(b.formula.tree) + 1
             IN  [stack |-> SubSeq(b.stack, 1, reduce_start) \o <<new_id>>
                              \o SubSeq(b.stack, reduce_start + 1, len),
                  formula |-> [b.formula EXCEPT
                                  !.tree = add_node(@, label, kids),
                                  !.variables = IF is_var THEN @ \cup {new_id} ELSE @],
                  ok |-> TRUE]

\* FormulaBuilder::reduce in a build with (checks) or without overflow checks:
\* the var_count entries of the stack that lie under the top `offset` entries
\* become the children of a new node, which takes their place.  var_count + offset
\* is a u8 sum: where it exceeds U8Max, a build with overflow checks panics at the
\* addition, and one without them goes on with the wrapped sum; drain panics when
\* reduce_start is above reduce_end.  A panic (of assert!, of the addition or of
\* drain) leaves the builder unusable (ok = FALSE).
reduce_in(checks, b, label, var_count, offset, is_var) ==
    LET len == Len(b.stack)
        sum == u8_add(var_count, offset)
        reduce_start == saturating_sub(len, sum)
        reduce_end   == saturating_sub(len, offset)
    IN  IF \/ ~b.ok
           \/ checks /\ var_count + offset > U8Max
           \/ len < sum
           \/ reduce_start > reduce_end
        THEN [b EXCEPT !.ok = FALSE]
        ELSE LET kids   == SubSeq(b.stack, reduce_start + 1, reduce_end)
                 new_id == Len(b.formula.tree) + 1
             IN  [stack |-> SubSeq(b.stack, 1, reduce_start) \o <<new_id>>
                              \o SubSeq(b.stack, reduce_end + 1, len),
                  formula |-> [b.formula EXCEPT
                                  !.tree = add_node(@, label, kids),
                                  !.variables = IF is_var THEN @ \cup {new_id} ELSE @],
                  ok |-> TRUE]

\* FormulaBuilder::reduce as formula.rs calls it, with offset 0: the sum is
\* var_count and the two builds agree.
reduce(b, label, var_count, offset, is_var) ==
    reduce_in(TRUE, b, label, var_count, offset, is_var)

\* What build leaves behind when its assert! fails.
BuildPanicked == [panicked |-> TRUE]

\* FormulaBuilder::build: the one entry left on the stack is the root.
build(b, typecode) ==
    IF ~b.ok \/ Len(b.stack) # 1
    THEN BuildPanicked
    ELSE [b.formula EXCEPT !.root = b.stack[1], !.typecode = typecode]

Min(x, y) == IF x < y THEN x ELSE y

RECURSIVE sub_eq(_, _, _, _)
RECURSIVE copy_sub_formula(_, _, _)
RECURSIVE copy_children(_, _, _, _)
RECURSIVE sub_substitute(_, _, _, _)
RECURSIVE substitute_children(_, _, _, _, _)
RECURSIVE sub_unify(_, _, _, _, _)
RECURSIVE unify_children(_, _, _, _, _, _)
RECURSIVE copy_again(_, _, _, _)
RECURSIVE copy_again_children(_, _, _, _, _)

\* Formula::sub_eq taking a variable node of self to equal anything, as a
\* pattern's variable does in sub_unify.
sub_eq_left_wildcard(f, n, g, m) ==
    \/ is_variable(f, n)
    \/ /\ f.tree[n].label = g.tree[m].label
       /\ has_children(f.tree, n) = has_children(g.tree, m)
       /\ \A i \in 1 .. Min(Len(children(f.tree, n)), Len(children(g.tree, m))) :
             sub_eq(f, children(f.tree, n)[i], g, children(g.tree, m)[i])

\* Formula::sub_eq: equal labels, children on both sides or on neither, and the
\* children equal pair by pair as far as zip pairs them.
sub_eq(f, n, g, m) ==
    /\ f.tree[n].label = g.tree[m].label
    /\ has_children(f.tree, n) = has_children(g.tree, m)
    /\ \A i \in 1 .. Min(Len(children(f.tree, n)), Len(children(g.tree, m))) :
          sub_eq(f, children(f.tree, n)[i], g, children(g.tree, m)[i])

\* PartialEq for Formula.
eq(f, g) == sub_eq(f, f.root, g, g.root)

\* The loop over children_iter of copy_sub_formula, from the i-th child on.
copy_children(f, n, i, b) ==
    IF i > Len(children(f.tree, n))
    THEN b
    ELSE copy_children(f, n, i + 1, copy_sub_formula(f, children(f.tree, n)[i], b))

\* Formula::copy_sub_formula: the sub-formula at node n is rebuilt in the builder.
copy_sub_formula(f, n, b) ==
    reduce(copy_children(f, n, 1, b),
           f.tree[n].label, Len(children(f.tree, n)), 0, is_variable(f, n))

\* The loop over children_iter of sub_substitute, from the i-th child on.
substitute_children(f, n, i, subs, b) ==
    IF i > Len(children(f.tree, n))
    THEN b
    ELSE substitute_children(f, n, i + 1, subs,
                             sub_substitute(f, children(f.tree, n)[i], subs, b))

\* Formula::sub_substitute copying a variable node that has a substitution as it is.
sub_substitute_keeps(f, n, subs, b) ==
    reduce(substitute_children(f, n, 1, subs, b),
           f.tree[n].label, Len(children(f.tree, n)), 0, is_variable(f, n))

\* Formula::sub_substitute without the is_variable test: every node whose label
\* is a key is replaced.
sub_substitute_by_label(f, n, subs, b) ==
    IF f.tree[n].label \in DOMAIN subs
    THEN copy_sub_formula(subs[f.tree[n].label], subs[f.tree[n].label].root, b)
    ELSE reduce(substitute_children(f, n, 1, subs, b),
                f.tree[n].label, Len(children(f.tree, n)), 0, is_variable(f, n))

\* copy_sub_formula looking up the variables of the formula it copies in the
\* substitutions once more.
copy_again_children(f, n, i, subs, b) ==
    IF i > Len(children(f.tree, n))
    THEN b
    ELSE copy_again_children(f, n, i + 1, subs,
                             copy_again(f, children(f.tree, n)[i], subs, b))

copy_again(f, n, subs, b) ==
    IF is_variable(f, n) /\ f.tree[n].label \in DOMAIN subs
    THEN copy_sub_formula(subs[f.tree[n].label], subs[f.tree[n].label].root, b)
    ELSE reduce(copy_again_children(f, n, 1, subs, b),
                f.tree[n].label, Len(children(f.tree, n)), 0, is_variable(f, n))

\* Formula::sub_substitute substituting once more inside the formula it inserts.
sub_substitute_twice(f, n, subs, b) ==
    IF is_variable(f, n) /\ f.tree[n].label \in DOMAIN subs
    THEN copy_again(subs[f.tree[n].label], subs[f.tree[n].label].root, subs, b)
    ELSE reduce(substitute_children(f, n, 1, subs, b),
                f.tree[n].label, Len(children(f.tree, n)), 0, is_variable(f, n))

\* Formula::sub_substitute: a variable node whose label is a key is replaced by a
\* copy of the mapped formula, any other node is rebuilt over its substituted children.
sub_substitute(f, n, subs, b) ==
    IF is_variable(f, n) /\ f.tree[n].label \in DOMAIN subs
    THEN copy_sub_formula(subs[f.tree[n].label], subs[f.tree[n].label].root, b)
    ELSE reduce(substitute_children(f, n, 1, subs, b),
                f.tree[n].label, Len(children(f.tree, n)), 0, is_variable(f, n))

\* Formula::substitute.
substitute(f, subs) == build(sub_substitute(f, f.root, subs, BuilderDefault), f.typecode)

\* HashMap::insert.
insert(subs, k, v) == [x \in DOMAIN subs \cup {k} |-> IF x = k THEN v ELSE subs[x]]

\* The loop of sub_unify leaving after the first pair of children.
unify_children_first_only(f, n, g, m, i, r) ==
    IF ~r.some \/ i > Min(1, Min(Len(children(f.tree, n)), Len(children(g.tree, m))))
    THEN r
    ELSE sub_unify(f, children(f.tree, n)[i], g, children(g.tree, m)[i], r.subs)

\* The loop of sub_unify over the zipped children, from the i-th pair on; `?`
\* leaves at the first pair that does not unify.
unify_children(f, n, g, m, i, r) ==
    IF ~r.some \/ i > Min(Len(children(f.tree, n)), Len(children(g.tree, m)))
    THEN r
    ELSE unify_children(f, n, g, m, i + 1,
             sub_unify(f, children(f.tree, n)[i], g, children(g.tree, m)[i], r.subs))

\* Formula::sub_unify storing a substitution for a variable without looking at
\* the one already stored.
sub_unify_overwrites(f, n, g, m, subs) ==
    IF is_variable(g, m)
    THEN UnifySome(insert(subs, g.tree[m].label, sub_formula(f, n)))
    ELSE IF /\ f.tree[n].label = g.tree[m].label
            /\ has_children(f.tree, n) = has_children(g.tree, m)
         THEN unify_children(f, n, g, m, 1, UnifySome(subs))
         ELSE UnifyNone

\* Formula::sub_unify binding a variable of the pattern to leaves only.
sub_unify_leaf_only(f, n, g, m, subs) ==
    IF is_variable(g, m)
    THEN IF has_children(f.tree, n)
         THEN UnifyNone
         ELSE IF g.tree[m].label \in DOMAIN subs
              THEN IF sub_eq(f, n, subs[g.tree[m].label], subs[g.tree[m].label].root)
                   THEN UnifySome(subs) ELSE UnifyNone
              ELSE UnifySome(insert(subs, g.tree[m].label, sub_formula(f, n)))
    ELSE IF /\ f.tree[n].label = g.tree[m].label
            /\ has_children(f.tree, n) = has_children(g.tree, m)
         THEN unify_children(f, n, g, m, 1, UnifySome(subs))
         ELSE UnifyNone

\* Formula::sub_unify storing the substitution again at every occurrence of a
\* variable that agrees with the one stored.
sub_unify_rebinds(f, n, g, m, subs) ==
    IF is_variable(g, m)
    THEN IF g.tree[m].label \in DOMAIN subs
         THEN IF sub_eq(f, n, subs[g.tree[m].label], subs[g.tree[m].label].root)
              THEN UnifySome(insert(subs, g.tree[m].label, sub_formula(f, n)))
              ELSE UnifyNone
         ELSE UnifySome(insert(subs, g.tree[m].label, sub_formula(f, n)))
    ELSE IF /\ f.tree[n].label = g.tree[m].label
            /\ has_children(f.tree, n) = has_children(g.tree, m)
         THEN unify_children(f, n, g, m, 1, UnifySome(subs))
         ELSE UnifyNone

\* Formula::sub_unify: node n of f against node m of the pattern g.
sub_unify(f, n, g, m, subs) ==
    IF is_variable(g, m)
    THEN IF g.tree[m].label \in DOMAIN subs
         THEN IF sub_eq(f, n, subs[g.tree[m].label], subs[g.tree[m].label].root)
              THEN UnifySome(subs) ELSE UnifyNone
         ELSE UnifySome(insert(subs, g.tree[m].label, sub_formula(f, n)))
    ELSE IF /\ f.tree[n].label = g.tree[m].label
            /\ has_children(f.tree, n) = has_children(g.tree, m)
         THEN unify_children(f, n, g, m, 1, UnifySome(subs))
         ELSE UnifyNone

\* Formula::unify.
unify(f, g) == sub_unify(f, f.root, g, g.root, <<>>)

\* The grammar the formulas are parsed with: the labels of the floating
\* hypotheses (variables, no children) and of the syntax axioms with none, one
\* and two variables in their math strings.
VarLabels    == {1, 2}
ConstLabels  == {3}
UnaryLabels  == {4}
BinaryLabels == {5}
Labels == VarLabels \cup ConstLabels \cup UnaryLabels \cup BinaryLabels
TypeCodes == {1, 2}

Term(l, kids) == [label |-> l, kids |-> kids]

\* The parse trees of exactly n nodes.
RECURSIVE TermsOfSize(_)
TermsOfSize(n) ==
    IF n = 1
    THEN {Term(l, <<>>) : l \in VarLabels \cup ConstLabels}
    ELSE {Term(l, <<t>>) : l \in UnaryLabels, t \in TermsOfSize(n - 1)}
         \cup UNION {{Term(l, <<t1, t2>>) :
                          l \in BinaryLabels, t1 \in TermsOfSize(k),
                          t2 \in TermsOfSize(n - 1 - k)} : k \in 1 .. (n - 2)}

Terms == UNION {TermsOfSize(n) : n \in 1 .. MaxNodes}

\* The reductions the parser makes for a parse tree: children first, left to right.
RECURSIVE FromTerm(_, _)
RECURSIVE FromTerms(_, _, _)
FromTerms(ts, i, b) ==
    IF i > Len(ts) THEN b ELSE FromTerms(ts, i + 1, FromTerm(ts[i], b))
FromTerm(t, b) ==
    reduce(FromTerms(t.kids, 1, b), t.label, Len(t.kids), 0, t.label \in VarLabels)

\* The formulas the parser builds.
Formulas == {build(FromTerm(t, BuilderDefault), tc) : t \in Terms, tc \in TypeCodes}

\* The substitutions handed to substitute: none, one, or two keys among all
\* the labels, mapped to fa and to fb.
SubsChoices ==
    {<<>>}
    \cup {insert(<<>>, k, fa) : k \in Labels}
    \cup {insert(insert(<<>>, k[1], fa), k[2], fb) :
             k \in {x \in Labels \X Labels : x[1] # x[2]}}

\* fa.unify(fb).
FUnify ==
    /\ fres.op = "init"
    /\ fres' = FRes("unify", unify(fa, fb), NoFormula, <<>>)
    /\ UNCHANGED <<fa, fb>>

\* fb.substitute(subs) with the substitutions the unification returned.
FSubstituteBack ==
    /\ fres.op = "unify"
    /\ fres.un.some
    /\ fres' = FRes("back", fres.un, substitute(fb, fres.un.subs), <<>>)
    /\ UNCHANGED <<fa, fb>>

\* fb.substitute(subs) for substitutions of the caller's choice.
FSubstitute ==
    \E subs \in SubsChoices :
        /\ fres.op = "init"
        /\ fres' = FRes("substitute", UnifySome(subs), substitute(fb, subs), <<>>)
        /\ UNCHANGED <<fa, fb>>

\* fa == fb, fb == fa and fa == fa.
FEq ==
    /\ fres.op = "init"
    /\ fres' = FRes("eq", UnifyNone, NoFormula, <<eq(fa, fb), eq(fb, fa), eq(fa, fa)>>)
    /\ UNCHANGED <<fa, fb>>

InitFormula ==
    /\ InitDbVars /\ InitExecIdle /\ InitPromIdle
    /\ InitSegIdle /\ InitDropIdle /\ InitNestIdle /\ InitBuilderIdle
    /\ fa \in Formulas
    /\ fb \in Formulas
    /\ fres = FInit

NextFormula ==
    /\ UNCHANGED <<db, heap, handles, histVars, execVars, promVars, ret>>
    /\ UNCHANGED <<segVars, released, nest, bldVars>>
    /\ \/ FUnify
       \/ FSubstituteBack
       \/ FSubstitute
       \/ FEq

SpecFormula == InitFormula /\ [][NextFormula]_vars

(***************************************************************************)
(*        COMPARING FORMULAS PARSED BEFORE AND AFTER A GRAMMAR EDIT        *)
(*  A label is an Atom, which the database keeps for the statement of that *)
(*  name over a reparse; a formula of an earlier statement-parse result,   *)
(*  held through its Arc, can be compared with one parsed after the syntax *)
(*  axioms were edited.                                                    *)
(***************************************************************************)

\* The parse trees of exactly n nodes once the syntax axioms are edited: the axiom
\* of a UnaryLabels label now has two variables, that of a BinaryLabels label one.
RECURSIVE TermsOfSizeEdited(_)
TermsOfSizeEdited(n) ==
    IF n = 1
    THEN {Term(l, <<>>) : l \in VarLabels \cup ConstLabels}
    ELSE {Term(l, <<t>>) : l \in BinaryLabels, t \in TermsOfSizeEdited(n - 1)}
         \cup UNION {{Term(l, <<t1, t2>>) :
                          l \in UnaryLabels, t1 \in TermsOfSizeEdited(k),
                          t2 \in TermsOfSizeEdited(n - 1 - k)} : k \in 1 .. (n - 2)}

\* The formulas the parser builds after the edit.
FormulasEdited ==
    {build(FromTerm(t, BuilderDefault), tc) :
        t \in UNION {TermsOfSizeEdited(n) : n \in 1 .. MaxNodes}, tc \in TypeCodes}

\* In `fres`: fa.sub_eq(n, fb, m) gave r.
FSubEqRes(n, m, r) ==
    [op |-> "sub_eq", un |-> UnifyNone, out |-> NoFormula, eqs |-> <<r>>, at |-> <<n, m>>]

\* fa.sub_eq(n, fb, m) for nodes of the two formulas, as PartialEq and sub_unify call it.
FSubEq ==
    \E n \in DOMAIN fa.tree, m \in DOMAIN fb.tree :
        /\ fres.op = "init"
        /\ fres' = FSubEqRes(n, m, sub_eq(fa, n, fb, m))
        /\ UNCHANGED <<fa, fb>>

InitFormulaEq ==
    /\ InitDbVars /\ InitExecIdle /\ InitPromIdle
    /\ InitSegIdle /\ InitDropIdle /\ InitNestIdle /\ InitBuilderIdle
    /\ fa \in Formulas
    /\ fb \in Formulas \cup FormulasEdited
    /\ fres = FInit

NextFormulaEq ==
    /\ UNCHANGED <<db, heap, handles, histVars, execVars, promVars, ret>>
    /\ UNCHANGED <<segVars, released, nest, bldVars>>
    /\ FSubEq

SpecFormulaEq == InitFormulaEq /\ [][NextFormulaEq]_vars

(***************************************************************************)
(*                    COMPARING THREE FORMULAS                             *)
(***************************************************************************)

\* The formulas compared in chain.  sub_eq reads neither typecode nor variables,
\* so one typecode stands for all.
ChainFormulas(fs) == {f \in fs : f.typecode = 1}

\* fa == fb, fb == fc and fa == fc.
FEqChain ==
    /\ fres.op = "init"
    /\ fres' = FRes("chain", UnifyNone, NoFormula, <<eq(fa, fb), eq(fb, fc), eq(fa, fc)>>)
    /\ UNCHANGED <<fa, fb, fc>>

InitFormulaChain ==
    /\ InitDbVars /\ InitExecIdle /\ InitPromIdle
    /\ InitSegIdle /\ InitDropIdle /\ InitNestIdle
    /\ bld = BuilderDefault
    /\ bcall = NoCall
    /\ fa \in ChainFormulas(Formulas)
    /\ fb \in ChainFormulas(Formulas \cup FormulasEdited)
    /\ fc \in ChainFormulas(Formulas)
    /\ fres = FInit

NextFormulaChain ==
    /\ UNCHANGED <<db, heap, handles, histVars, execVars, promVars, ret>>
    /\ UNCHANGED <<segVars, released, nest, bld, bcall>>
    /\ FEqChain

SpecFormulaChain == InitFormulaChain /\ [][NextFormulaChain]_vars

(***************************************************************************)
(*                 BUILDING A FORMULA: reduce AND build                    *)
(***************************************************************************)

\* The arguments the calls of reduce are made with.
VarCounts     == {0, 1, 2, U8Max}
Offsets       == {0, 1, 2}
BuilderLabels == {4}

\* The builder after n calls reduce(3, 0, 0, false) on FormulaBuilder::default():
\* n leaves, each on the stack.
LeafBuilder(n) ==
    [stack |-> [i \in 1 .. n |-> i],
     formula |-> [FormulaDefault EXCEPT
                     !.tree = [i \in 1 .. n |-> [label |-> 3, kids |-> <<>>]]],
     ok |-> TRUE]

\* The stacks reduce is called on: up to MaxLeaves leaves, or more than a u8 counts.
StartLeaves == (0 .. MaxLeaves) \cup {U8Max + 2}

\* In `bcall`: the builder was made; reduce was called; build was called.
\* checks: whether the program was built with overflow checks.  made[i]: the
\* is_variable node i was created with.  steps: the calls so far.
BStart(n, checks) ==
    [op |-> "start", checks |-> checks, made |-> [i \in 1 .. n |-> FALSE], steps |-> 0]
BReduced(checks, label, var_count, offset, is_var, before, made, steps) ==
    [op |-> "reduce", checks |-> checks, label |-> label, var_count |-> var_count,
     offset |-> offset, is_var |-> is_var, before |-> before, made |-> made,
     steps |-> steps]
BBuilt(checks, typecode, before, out, made, steps) ==
    [op |-> "build", checks |-> checks, typecode |-> typecode, before |-> before,
     out |-> out, made |-> made, steps |-> steps]

\* builder.reduce(label, var_count, offset, is_var), in the program's kind of build.
BReduce ==
    \E label \in BuilderLabels, var_count \in VarCounts,
       offset \in Offsets, is_var \in BOOLEAN :
        LET checks == bcall.checks
            after == reduce_in(checks, bld, label, var_count, offset, is_var) IN
        /\ bcall.op \in {"start", "reduce"}
        /\ bld.ok
        /\ bcall.steps < MaxReduce
        /\ bld' = after
        /\ bcall' = BReduced(checks, label, var_count, offset, is_var, bld,
                             IF after.ok THEN Append(bcall.made, is_var) ELSE bcall.made,
                             bcall.steps + 1)
        /\ UNCHANGED fc

\* builder.build(typecode): the builder is consumed.
BBuild ==
    \E typecode \in TypeCodes :
        /\ bcall.op \in {"start", "reduce"}
        /\ bld.ok
        /\ bcall' = BBuilt(bcall.checks, typecode, bld, build(bld, typecode), bcall.made, bcall.steps)
        /\ UNCHANGED <<bld, fc>>

InitBuilder ==
    /\ InitDbVars /\ InitExecIdle /\ InitPromIdle /\ InitFormulaIdle
    /\ InitSegIdle /\ InitDropIdle /\ InitNestIdle
    /\ fc = FormulaDefault
    /\ \E n \in StartLeaves, checks \in BOOLEAN :
          /\ bld = LeafBuilder(n)
          /\ bcall = BStart(n, checks)

NextBuilder ==
    /\ UNCHANGED <<db, heap, handles, histVars, execVars, promVars, ret, fmVars>>
    /\ UNCHANGED <<segVars, released, nest>>
    /\ \/ BReduce
       \/ BBuild

SpecBuilder == InitBuilder /\ [][NextBuilder]_vars

(***************************************************************************)
(*                 READING A FORMULA: get_by_path AND Flatten              *)
(***************************************************************************)

\* Option<NodeId> and Option<Label>.
NoNode == 0
NoLabel == [some |-> FALSE, label |-> 0]
SomeLabel(l) == [some |-> TRUE, label |-> l]

\* Tree::nth_child(node, index): the index-th child of the node, the first
\* child having index 1; none when the node has fewer children.
nth_child(tree, n, index) ==
    IF index \in 1 .. Len(tree[n].kids) THEN tree[n].kids[index] ELSE NoNode

RECURSIVE get_by_path_from(_, _, _, _)

\* The loop of get_by_path with `break` in the place of `?`: a missing child
\* ends the walk at the node reached.
get_by_path_from_breaks(f, node_id, path, i) ==
    IF i > Len(path)
    THEN SomeLabel(f.tree[node_id].label)
    ELSE IF nth_child(f.tree, node_id, path[i]) = NoNode
         THEN SomeLabel(f.tree[node_id].label)
         ELSE get_by_path_from(f, nth_child(f.tree, node_id, path[i]), path, i + 1)

\* The loop of get_by_path from the i-th element of the path on: `?` returns
\* None at the first step that has no child.
get_by_path_from(f, node_id, path, i) ==
    IF i > Len(path)
    THEN SomeLabel(f.tree[node_id].label)
    ELSE IF nth_child(f.tree, node_id, path[i]) = NoNode
         THEN NoLabel
         ELSE get_by_path_from(f, nth_child(f.tree, node_id, path[i]), path, i + 1)

\* Formula::get_by_path.
get_by_path(f, path) == get_by_path_from(f, f.root, path, 1)

\* The paths given to get_by_path: at most as many steps as the formula may have
\* nodes, each step a child index from 1 to one more than any node has children.
PathSteps == {1, 2, 3}
Paths == UNION {[1 .. n -> PathSteps] : n \in 0 .. MaxNodes}

\* The symbols: the typecodes (constants), the variables A and B, and the
\* constants of the syntax axioms.
VariableSymbols == {11, 12}
SymbolType(sym) == IF sym \in VariableSymbols THEN "Variable" ELSE "Constant"

\* sref.math_iter(): the math string of the statement of a label, typecode first.
\* Floating hypotheses `tc A`, `tc B`; syntax axioms `tc c`, `tc - A`, `tc ( A + B )`.
stmt_math(label) ==
    CASE label = 1 -> <<2, 11>>
      [] label = 2 -> <<2, 12>>
      [] label = 3 -> <<2, 20>>
      [] label = 4 -> <<2, 21, 11>>
      [] label = 5 -> <<2, 22, 11, 23, 12, 24>>

\* What Flatten::next returns: None, Some(symbol), or the panic "Empty formula!".
ItemNone     == [kind |-> "none", sym |-> 0]
ItemSome(s)  == [kind |-> "some", sym |-> s]
ItemPanic    == [kind |-> "panic", sym |-> 0]

\* Flatten::step_into pushing the whole math string, typecode included.
step_into_with_typecode(f, stack, node_id) ==
    Append(stack, [math_iter |-> stmt_math(f.tree[node_id].label),
                   has_siblings |-> has_children(f.tree, node_id),
                   sibling_iter |-> children(f.tree, node_id)])

\* Flatten::step_into: the math string of the node's statement after its
\* typecode is pushed with the iterator over the node's children (None when it
\* has none).
step_into(f, stack, node_id) ==
    Append(stack, [math_iter |-> Tail(stmt_math(f.tree[node_id].label)),
                   has_siblings |-> has_children(f.tree, node_id),
                   sibling_iter |-> children(f.tree, node_id)])

\* Flatten::next on the stack: yields [stack, item].
RECURSIVE next(_, _)
next(f, stack) ==
    IF stack = <<>>
    THEN [stack |-> stack, item |-> ItemNone]
    ELSE LET stack_end == Len(stack)
             top == stack[stack_end]
         IN  IF top.math_iter # <<>>
             THEN LET token == Head(top.math_iter)
                      taken == [stack EXCEPT ![stack_end].math_iter = Tail(@)]
                  IN  IF SymbolType(token) = "Constant" \/ ~top.has_siblings
                      THEN [stack |-> taken, item |-> ItemSome(token)]
                      ELSE IF top.sibling_iter # <<>>
                           THEN next(f, step_into(f,
                                        [taken EXCEPT ![stack_end].sibling_iter = Tail(@)],
                                        Head(top.sibling_iter)))
                           ELSE [stack |-> taken, item |-> ItemPanic]
             ELSE next(f, SubSeq(stack, 1, stack_end - 1))

\* Formula::iter: the iterator stepped into the root.
iter(f) == step_into(f, <<>>, f.root)

\* In `fres`: get_by_path(path) returned r; the iterator with the symbols it has
\* returned so far.
FPath(path, r) ==
    [op |-> "path", un |-> UnifyNone, out |-> r, eqs |-> <<>>, path |-> path]
FIterating(stack, emitted, ended) ==
    [op |-> "iter", un |-> UnifyNone, out |-> NoFormula, eqs |-> <<>>,
     stack |-> stack, emitted |-> emitted, ended |-> ended]

\* fa.get_by_path(path).
FGetByPath ==
    \E path \in Paths :
        /\ fres.op = "init"
        /\ fres' = FPath(path, get_by_path(fa, path))
        /\ UNCHANGED <<fa, fb>>

\* fa.iter(sset, nset).
FIter ==
    /\ fres.op = "init"
    /\ fres' = FIterating(iter(fa), <<>>, "no")
    /\ UNCHANGED <<fa, fb>>

\* One call of next on the iterator; nothing is called after None or a panic.
FIterNext ==
    /\ fres.op = "iter"
    /\ fres.ended = "no"
    /\ LET r == next(fa, fres.stack) IN
       fres' = FIterating(r.stack,
                          IF r.item.kind = "some"
                          THEN Append(fres.emitted, r.item.sym) ELSE fres.emitted,
                          IF r.item.kind = "some" THEN "no" ELSE r.item.kind)
    /\ UNCHANGED <<fa, fb>>

\* One formula built by the parser is read.
InitFormulaRead ==
    /\ InitDbVars /\ InitExecIdle /\ InitPromIdle
    /\ InitSegIdle /\ InitDropIdle /\ InitNestIdle /\ InitBuilderIdle
    /\ fa \in Formulas
    /\ fb = FormulaDefault
    /\ fres = FInit

NextFormulaRead ==
    /\ UNCHANGED <<db, heap, handles, histVars, execVars, promVars, ret>>
    /\ UNCHANGED <<segVars, released, nest, bldVars>>
    /\ \/ FGetByPath
       \/ FIter
       \/ FIterNext

SpecFormulaRead == InitFormulaRead /\ [][NextFormulaRead]_vars

(***************************************************************************)
(*                      DROPPING THE DATABASE                              *)
(***************************************************************************)

\* impl Drop for Database: the fields the body of drop releases, in the order of
\* its statements (segments: Arc::make_mut(&mut self.segments).clear()).
DropBody == <<"prev_verify", "verify", "prev_scopes", "scopes",
              "prev_nameset", "nameset", "segments", "outline">>

\* The fields of struct Database in the order of their declaration, in which
\* they are dropped after the body of drop.
DropFields == <<"segments", "prev_nameset", "nameset", "prev_scopes", "scopes",
                "prev_verify", "verify", "outline", "grammar", "stmt_parse">>

\* The slots among the first i of a sequence that hold something in d, each at
\* the place where it is first released.
RECURSIVE ReleasedUpTo(_, _, _)
ReleasedUpTo(d, order_, i) ==
    IF i = 0 THEN <<>>
    ELSE LET before == ReleasedUpTo(d, order_, i - 1) IN
         IF d[order_[i]] # None /\ \A k \in DOMAIN before : before[k] # order_[i]
         THEN Append(before, order_[i])
         ELSE before

\* The order in which dropping the database d releases what its slots hold.
drop(d) == ReleasedUpTo(d, DropBody \o DropFields, Len(DropBody \o DropFields))

\* The database goes out of scope.
Drop ==
    /\ lastCall # "drop"
    /\ released' = drop(db)
    /\ db' = [s \in Slots |-> None]
    /\ heap' = [k \in Kinds |-> [o \in ObjIds |-> Free]]
    /\ lastCall' = "drop"
    /\ ret' = NoResult
    /\ UNCHANGED <<handles, runs, last, started>>
    /\ UNCHANGED execVars

NextDrop ==
    /\ UNCHANGED <<promVars, fmVars, segVars, nest, bldVars>>
    /\ \/ /\ lastCall # "drop"
          /\ UNCHANGED released
          /\ \/ CallParse
             \/ CallNamePass
             \/ CallScopePass
             \/ CallVerifyPass
             \/ CallOutlinePass
             \/ CallGrammarPass
             \/ CallStmtParsePass
       \/ Drop

SpecDrop == InitDb /\ [][NextDrop]_vars

(***************************************************************************)
(*                     SEGMENTS AND THEIR IDS                              *)
(*  SegmentSet::read and parser::SegmentOrder, after the rules of the spec *)
(*  and the module documentation "On segmentation".  Every piece of the    *)
(*  input yields one segment.                                              *)
(***************************************************************************)

\* The pieces (by path) an input may hold, and the contents a piece may have.
Pieces == 1 .. MaxPieces
Contents == {1, 2}

\* A loaded segment.
Segment(id, piece, content) == [id |-> id, piece |-> piece, content |-> content]

\* The place of x in a sequence that holds it once.
IndexOf(seq, x) == CHOOSE i \in DOMAIN seq : seq[i] = x

\* SegmentOrder::compare(a, b) < 0: a is earlier than b in the logical order.
Earlier(ord, a, b) == IndexOf(ord.ids, a) < IndexOf(ord.ids, b)

\* SegmentOrder::insert_between(prev, next): a new id right after prev (first
\* when prev is 0).  Yields the order; the new id is its high_water.
insert_between(ord, prev) ==
    LET at == IF prev = 0 THEN 0 ELSE IndexOf(ord.ids, prev)
        id == ord.high_water + 1
    IN  [ids |-> SubSeq(ord.ids, 1, at) \o <<id>> \o SubSeq(ord.ids, at + 1, Len(ord.ids)),
         high_water |-> id]

\* The ids of the segments that went are taken out of the order.
free_ids(ord, live) ==
    LET Keep(i) == ord.ids[i] \in live
        RECURSIVE Sel(_)
        Sel(i) == IF i > Len(ord.ids) THEN <<>>
                  ELSE (IF Keep(i) THEN <<ord.ids[i]>> ELSE <<>>) \o Sel(i + 1)
    IN  [ord EXCEPT !.ids = Sel(1)]

\* The old segment of a piece (by path), if the piece was loaded before.
OldOf(old, piece) == {s \in {old[i] : i \in DOMAIN old} : s.piece = piece}

\* ID rule 2 with pieces matched by path alone, wherever they now stand.
keeps_wherever(oldOrd, o, content, lastKept) == TRUE

\* ID rule 2 reusing the id only for a piece whose content is unchanged.
keeps_unchanged_only(oldOrd, o, content, lastKept) ==
    /\ o.content = content
    /\ lastKept = 0 \/ Earlier(oldOrd, lastKept, o.id)

\* ID rules 2 and 4: a piece loaded before keeps its id, whatever its content
\* now is, where that leaves the id after the ids kept so far.
keeps(oldOrd, o, content, lastKept) ==
    lastKept = 0 \/ Earlier(oldOrd, lastKept, o.id)

\* SegmentSet::read from the i-th piece of the input on.  acc: the segments
\* placed, the order, the last id placed and the last id kept.
RECURSIVE read_from(_, _, _, _, _)
read_from(old, oldOrd, input, i, acc) ==
    IF i > Len(input)
    THEN [segs |-> acc.segs,
          order |-> free_ids(acc.order, {acc.segs[k].id : k \in DOMAIN acc.segs})]
    ELSE LET p == input[i]
             os == OldOf(old, p.piece)
             o == CHOOSE s \in os : TRUE
         IN  IF os # {} /\ keeps(oldOrd, o, p.content, acc.lastKept)
             THEN read_from(old, oldOrd, input, i + 1,
                      [segs |-> Append(acc.segs, Segment(o.id, p.piece, p.content)),
                       order |-> acc.order, prev |-> o.id, lastKept |-> o.id])
             ELSE LET ord == insert_between(acc.order, acc.prev) IN
                  read_from(old, oldOrd, input, i + 1,
                      [segs |-> Append(acc.segs, Segment(ord.high_water, p.piece, p.content)),
                       order |-> ord, prev |-> ord.high_water, lastKept |-> acc.lastKept])

\* SegmentSet::read.
read(old, oldOrd, input) ==
    read_from(old, oldOrd, input, 1,
              [segs |-> <<>>, order |-> oldOrd, prev |-> 0, lastKept |-> 0])

\* The inputs: the pieces in the order the includes give, none twice.
Inputs ==
    {inp \in UNION {[1 .. n -> [piece : Pieces, content : Contents]] : n \in 0 .. MaxPieces} :
        \A i \in DOMAIN inp, j \in DOMAIN inp : i # j => inp[i].piece # inp[j].piece}

\* The pairs (a, b) of ids with a earlier than b in a list of segments.
EarlierPairs(ss) ==
    {<<ss[q[1]].id, ss[q[2]].id>> : q \in {x \in (DOMAIN ss) \X (DOMAIN ss) : x[1] < x[2]}}

\* In `segsOld`: the segments before the last reparse and every pair of ids ever
\* seen in order.
History(ss, before) == [segs |-> ss, before |-> before]

\* A (re)parse of the database's input.
SegRead ==
    \E input \in Inputs :
        LET r == read(segs, order, input) IN
        /\ r.order.high_water <= MaxIds
        /\ segs' = r.segs
        /\ order' = r.order
        /\ segsOld' = History(segs, segsOld.before \cup EarlierPairs(segs))

InitSegments ==
    /\ InitDbVars /\ InitExecIdle /\ InitPromIdle /\ InitFormulaIdle
    /\ InitSegIdle /\ InitDropIdle /\ InitNestIdle /\ InitBuilderIdle

NextSegments ==
    /\ UNCHANGED <<db, heap, handles, histVars, execVars, promVars, ret, fmVars>>
    /\ UNCHANGED <<released, nest, bldVars>>
    /\ SegRead

SpecSegments == InitSegments /\ [][NextSegments]_vars

(***************************************************************************)
(*                     CLAIMS ABOUT THE DATABASE                           *)
(***************************************************************************)

\* The current result of pass p, or Free when its slot is empty.
Current(p) == IF db[CurSlot(p)] = None THEN Free ELSE heap[CurSlot(p)][db[CurSlot(p)]]

\* C1: once a parse has happened, whenever the entry point of a pass has just
\* returned, that pass has been computed exactly once since the last parse and
\* its current result was computed on the segment set that parse produced (the
\* first request computes, the further ones do not).
C1_RecomputedOnceAfterParse ==
    \A p \in Passes :
        (lastCall = p /\ parse_result(Now) # Empty)
            => (runs[p] = 1 /\ Current(p) = parse_result(Now))

\* C2: whenever a pass entry point has just returned, the current slot of every
\* pass it depends on is non-empty: nameset after scope_pass; nameset and scopes
\* after verify_pass and grammar_pass; nameset, scopes and grammar after
\* stmt_parse_pass.
C2_DependenciesPresent ==
    /\ lastCall = "scope" => db["nameset"] # None
    /\ lastCall \in {"verify", "grammar"} => (db["nameset"] # None /\ db["scopes"] # None)
    /\ lastCall = "stmt_parse"
          => (db["nameset"] # None /\ db["scopes"] # None /\ db["grammar"] # None)

\* C3: in every call, each pass function that runs starts from the latest earlier
\* result of its pass, and from a default-constructed value only when the pass
\* was never computed on this database.
C3_StartsFromEarlierResult ==
    [][\A p \in Passes : started'[p] # NotRun => started'[p] = last[p]]_vars

\* C4: a value a caller holds an Arc to is the value it was when the caller
\* obtained the Arc, whatever parse and pass calls the database has served since.
C4_HeldValuesUnchanged ==
    \A x \in handles : heap[x.kind][x.obj] = x.snap

\* C4 witness: a caller still holds the old value of a result that is updated in
\* place (segment set, nameset, scopes, verify) while the database has moved on to
\* a copy holding a different value.
C4_Witness ==
    \E x \in handles :
        /\ x.kind \in {"segments", "nameset", "scopes", "verify"}
        /\ db[x.kind] # None
        /\ db[x.kind] # x.obj
        /\ heap[x.kind][db[x.kind]] # x.snap
        /\ heap[x.kind][x.obj] = x.snap

\* Pass p has computed a result at some time since the database was constructed.
EverRun(p) == last[p] # Default

\* C14 as stated: a *_result method aborts exactly when its pass has never run on
\* this database, and otherwise returns the result its pass last computed.
C14_ResultAbortsIffPassNeverCalled ==
    \A p \in Passes :
        ret.of = p =>
            /\ ret.tag = "abort" <=> ~EverRun(p)
            /\ ret.tag = "value" => ret.val = last[p]

\* C14 amended: a *_result method aborts exactly when its pass has not run since
\* the field it reads was last emptied (by Database::new, and by parse for every
\* pass but stmt_parse), and otherwise returns the result its pass last computed.
C14_ResultAbortsIffNotRunSinceCleared ==
    \A p \in Passes :
        ret.of = p =>
            /\ ret.tag = "abort" <=>
                  IF CurSlot(p) \in ParseCleared THEN runs[p] = 0 ELSE ~EverRun(p)
            /\ ret.tag = "value" => ret.val = last[p]

\* C14 witness: a *_result method aborted although its pass had run on this
\* database, before the last parse.
C14_Witness ==
    \E p \in Passes : ret = Aborted(p) /\ EverRun(p)

(***************************************************************************)
(*                     CLAIMS ABOUT THE EXECUTOR                           *)
(***************************************************************************)

\* The closure of job j has run to its end.
Finished(j) == runner[j] # NotRunYet

\* C5: with concurrency <= 1 there is no worker thread, nothing is ever queued,
\* and every job submitted so far was run to its end by the submitting thread
\* inside exec.
C5_SynchronousWhenSingle ==
    concurrency <= 1 =>
        /\ DOMAIN wpc = {}
        /\ queue = {}
        /\ \A j \in Submitted : runner[j] = Client

\* C5 witness: an executor of concurrency 1 has run two submitted jobs itself, one
\* of them a panicking one.
C5_Witness ==
    /\ concurrency = 1
    /\ Len(jobs) = 2
    /\ \A j \in Submitted : runner[j] = Client
    /\ \E j \in Submitted : jobs[j].outcome = "panic"

\* C6 as stated: on an executor whose worker count is one, once the two jobs with
\* estimates 100 and 1 are submitted, the job that started first is the one with
\* estimate 100.
C6_HundredStartsFirst ==
    (/\ concurrency = 1
     /\ Len(jobs) = 2
     /\ {jobs[1].est, jobs[2].est} = {1, 100}
     /\ firstStarted # 0)
        => jobs[firstStarted].est = 100

\* C6 amended: while a job with estimate 100 and a job with estimate 1 are both
\* queued (which takes concurrency > 1), no step takes the job with estimate 1
\* out of the queue; with concurrency <= 1 the first job to start is the first
\* one submitted.
C6_HundredTakenFirstWhenBothQueued ==
    [][/\ \A a \in queue, b \in queue :
             (jobs[a].est = 100 /\ jobs[b].est = 1) => b \in queue'
       /\ (concurrency <= 1 /\ firstStarted' # 0) => firstStarted' = 1]_vars

\* C6 witness: the job with estimate 1 was submitted first and is still queued,
\* and a worker has taken the job with estimate 100 that was submitted after it.
C6_Witness ==
    /\ Len(jobs) = 2
    /\ jobs[1].est = 1
    /\ jobs[2].est = 100
    /\ 1 \in queue
    /\ \E w \in DOMAIN wpc : wjob[w] = 2

\* C7: whenever a step takes a job out of the queue, no job that stays queued has
\* a greater estimate than the job taken.
C7_WorkerTakesGreatest ==
    [][\A j \in queue : j \notin queue' =>
           \A k \in queue' : jobs[k].est <= jobs[j].est]_vars

\* C7 witness: a worker holds a job it took while an earlier submitted job, of
\* no greater estimate, stayed in the queue.
C7_Witness ==
    \E w \in DOMAIN wpc, k \in queue :
        /\ wjob[w] # 0
        /\ k < wjob[w]
        /\ jobs[k].est <= jobs[wjob[w]].est

\* C8: no call of exec raises; a task's panic is kept in its own promise (the
\* cell holds Err until the promise is waited) and reaches the client exactly as
\* the outcome of wait on that promise; wait on the promise of a task that did
\* not panic returns that task's value.
C8_PanicRaisedOnlyByWait ==
    /\ ~execRaised
    /\ \A j \in Submitted :
        /\ (Finished(j) /\ waitResult[j] = NotWaited /\ jobs[j].outcome = "panic")
              => cell[j] = CellErr
        /\ waitResult[j] = Raised => jobs[j].outcome = "panic"
        /\ (waitResult[j] # NotWaited /\ jobs[j].outcome = "panic") => waitResult[j] = Raised
        /\ (waitResult[j] # NotWaited /\ jobs[j].outcome = "ok")
              => waitResult[j] = Returned(TaskResult(j))

\* C8 witness: on a threaded executor the client has waited on the promise of a
\* panicking task, which raised, and on the promise of another task, which
\* returned.
C8_Witness ==
    /\ concurrency > 1
    /\ \E j \in Submitted, k \in Submitted :
        /\ jobs[j].outcome = "panic"
        /\ waitResult[j] = Raised
        /\ waitResult[k] = Returned(TaskResult(k))

\* C9: with concurrency > 1 there are exactly `concurrency` worker threads and
\* none of them has ended.
C9_WorkersStayAlive ==
    concurrency > 1 =>
        /\ Cardinality(DOMAIN wpc) = concurrency
        /\ \A w \in DOMAIN wpc : wpc[w] # "dead"

\* C9 witness: a worker that ran a panicking task to its end has taken another job.
C9_Witness ==
    \E j \in Submitted :
        /\ jobs[j].outcome = "panic"
        /\ runner[j].kind = "worker"
        /\ wjob[runner[j].id] # 0

\* C10: wait on the promise of job j ends only once the closure of job j has run
\* to its end, and when the task did not panic the value returned is that task's.
C10_WaitGivesOwnResult ==
    \A j \in Submitted :
        waitResult[j] # NotWaited =>
            /\ Finished(j)
            /\ jobs[j].outcome = "ok" => waitResult[j].val = TaskResult(j)

\* C10 witness: the client blocked on the promise of the job submitted first while
\* the workers had dispatched the second job before it, and wait then returned
\* the first job's value.
C10_Witness ==
    /\ concurrency > 1
    /\ Len(jobs) = 2
    /\ firstStarted = 2
    /\ jobs[1].est < jobs[2].est
    /\ waitResult[1] = Returned(TaskResult(1))
    /\ waitResult[2] = NotWaited
    /\ Finished(2)

\* C11: with concurrency > 1 and fair scheduling, every job submitted is
\* eventually run to its end by a worker, and every wait the client has called
\* eventually ends (it returns the task's value, or raises the task's panic).
C11_JobsRunAndWaitsEnd ==
    /\ \A j \in 1 .. MaxJobs :
          (concurrency > 1 /\ j \in Submitted) ~> (j \in Submitted /\ runner[j].kind = "worker")
    /\ \A j \in 1 .. MaxJobs :
          (concurrency > 1 /\ cpc.at # "idle" /\ cpc.job = j) ~> (j \in Submitted /\ waitResult[j] # NotWaited)

\* C11 witness: on a threaded executor every job the bound allows was submitted
\* and run by a worker, every promise was waited, and the first wait returned.
C11_Witness ==
    /\ concurrency > 1
    /\ Len(jobs) = MaxJobs
    /\ \A j \in Submitted : runner[j].kind = "worker" /\ waitResult[j] # NotWaited
    /\ waitResult[1] = Returned(TaskResult(1))

(***************************************************************************)
(*                       CLAIMS ABOUT PROMISES                             *)
(***************************************************************************)

\* Entry e is in the log; its place there (each entry is logged at most once).
InLog(e) == \E i \in DOMAIN plog : plog[i] = e
Pos(e) == CHOOSE i \in DOMAIN plog : plog[i] = e

\* C12: a join that was waited and returned gave a vector as long as its input
\* whose i-th element is what wait gave for the i-th part; its parts were waited
\* first to last, each after the one before it was done; and a part is waited
\* only after the wait on the join has begun.
C12_JoinKeepsInputOrder ==
    \A p \in DOMAIN proms :
        proms[p].kind = "join" =>
            LET parts == proms[p].inner IN
            /\ proms[p].res.tag = "Returned" =>
                  /\ Len(proms[p].res.val) = Len(parts)
                  /\ \A i \in DOMAIN parts :
                        proms[parts[i]].res = PReturned(<<proms[p].res.val[i]>>)
            /\ \A i \in DOMAIN parts :
                  InLog(WaitBegan(parts[i])) =>
                      /\ InLog(WaitBegan(p))
                      /\ Pos(WaitBegan(p)) < Pos(WaitBegan(parts[i]))
                      /\ \A k \in 1 .. (i - 1) :
                            /\ proms[parts[k]].res.tag = "Returned"
                            /\ \A e \in {WaitBegan(parts[k]), Invoked(parts[k])} :
                                  InLog(e) /\ Pos(e) < Pos(WaitBegan(parts[i]))

\* C12 witness: a join of two parts, given in the order opposite to the one they
\* were built in and holding different values, was waited and returned.
C12_Witness ==
    \E p \in DOMAIN proms :
        /\ proms[p].kind = "join"
        /\ Len(proms[p].inner) = 2
        /\ proms[p].inner[1] > proms[p].inner[2]
        /\ proms[p].res.tag = "Returned"
        /\ proms[p].res.val[1] # proms[p].res.val[2]

\* C13: the closure of a new_once promise and the function of a map promise are
\* invoked at most once and never before wait has begun on their promise; once
\* wait on a new_once promise has ended its closure was invoked exactly once;
\* the function of a map promise is invoked only after the wait on the inner
\* promise has returned a value, and exactly once when the wait on the map
\* promise has ended after that.
C13_InvokedOnceAtWait ==
    \A p \in DOMAIN proms :
        LET me == proms[p] IN
        /\ me.calls <= 1
        /\ me.calls = 1 <=> InLog(Invoked(p))
        /\ InLog(Invoked(p)) =>
              InLog(WaitBegan(p)) /\ Pos(WaitBegan(p)) < Pos(Invoked(p))
        /\ (me.kind = "once" /\ me.res # PNotWaited) => me.calls = 1
        /\ me.kind = "map" =>
              LET q == me.inner[1] IN
              /\ me.calls = 1 =>
                    /\ proms[q].res.tag = "Returned"
                    /\ Pos(Invoked(q)) < Pos(Invoked(p))
              /\ me.res # PNotWaited =>
                    (me.calls = 1 <=> proms[q].res.tag = "Returned")
        /\ me.kind = "join" => me.calls = 0

\* C13 witness: a map promise over a new_once promise was waited and returned the
\* function's result; a promise built before it is still unwaited, its closure
\* not invoked.
C13_Witness ==
    \E p \in DOMAIN proms, u \in DOMAIN proms :
        /\ proms[p].kind = "map"
        /\ proms[proms[p].inner[1]].kind = "once"
        /\ proms[p].res = PReturned(<<map_fun(proms[proms[p].inner[1]].val)>>)
        /\ proms[p].calls = 1
        /\ u < p
        /\ proms[u].owner = "client"
        /\ proms[u].calls = 0

(***************************************************************************)
(*                       CLAIMS ABOUT FORMULAS                             *)
(***************************************************************************)

\* The sub-formula of f at node n as a term: label, variable mark, children in order.
RECURSIVE TermOf(_, _)
TermOf(f, n) ==
    [label |-> f.tree[n].label, var |-> is_variable(f, n),
     kids |-> [i \in DOMAIN f.tree[n].kids |-> TermOf(f, f.tree[n].kids[i])]]

\* The nodes of f below node n, n among them.
RECURSIVE NodesBelow(_, _)
NodesBelow(f, n) ==
    {n} \cup UNION {NodesBelow(f, f.tree[n].kids[i]) : i \in DOMAIN f.tree[n].kids}

\* The labels of the variable nodes of f that its root reaches.
VariableLabels(f) == {f.tree[n].label : n \in {m \in NodesBelow(f, f.root) : is_variable(f, m)}}

\* C15: when fa.unify(fb) has returned Some(subs), fb.substitute(subs) == fa.
C15_UnifySound ==
    fres.op = "back" => eq(fres.out, fa)

\* C15 witness: the pattern fb holds the same variable twice, the unification
\* succeeded on a formula other than the pattern, and the substitution was made.
C15_Witness ==
    /\ fres.op = "back"
    /\ Len(fb.tree) = 3
    /\ fb.variables = {1, 2}
    /\ fb.tree[1].label = fb.tree[2].label
    /\ TermOf(fa, fa.root) # TermOf(fb, fb.root)

RECURSIVE IsGeneralisation(_, _)
IsGeneralisation(ta, tb) ==
    \/ ta = tb
    \/ tb.var /\ tb.kids = <<>>
    \/ /\ tb.label = ta.label
       /\ tb.var = ta.var
       /\ Len(tb.kids) = Len(ta.kids)
       /\ \A i \in DOMAIN ta.kids : IsGeneralisation(ta.kids[i], tb.kids[i])

\* The labels of the variable leaves of tb that stand for a subterm of ta, one
\* entry for each replacement, left to right.
RECURSIVE ReplacementLabels(_, _)
RECURSIVE ReplacementLabelsFrom(_, _, _)
ReplacementLabelsFrom(ta, tb, i) ==
    IF i > Len(tb.kids)
    THEN <<>>
    ELSE ReplacementLabels(ta.kids[i], tb.kids[i]) \o ReplacementLabelsFrom(ta, tb, i + 1)
ReplacementLabels(ta, tb) ==
    IF ta = tb THEN <<>>
    ELSE IF tb.var /\ tb.kids = <<>> THEN <<tb.label>>
    ELSE ReplacementLabelsFrom(ta, tb, 1)

\* The labels of a term.
RECURSIVE LabelsOf(_)
LabelsOf(t) == {t.label} \cup UNION {LabelsOf(t.kids[i]) : i \in DOMAIN t.kids}

\* fb is fa with some subterms replaced by variable leaves whose labels do not
\* occur in fa and differ from one replacement to the next.
FreshGeneralisation ==
    LET ta == TermOf(fa, fa.root)
        tb == TermOf(fb, fb.root)
        ls == ReplacementLabels(ta, tb)
    IN  /\ IsGeneralisation(ta, tb)
        /\ \A i \in DOMAIN ls : ls[i] \notin LabelsOf(ta)
        /\ \A i \in DOMAIN ls, j \in DOMAIN ls : i # j => ls[i] # ls[j]

\* C17: when the pattern fb is fa with some subterms replaced by variable leaves
\* of fresh, pairwise distinct labels, fa.unify(fb) returns Some.
C17_UnifyComplete ==
    (fres.op = "unify" /\ FreshGeneralisation) => fres.un.some

\* C17 witness: the unification succeeded on a pattern in which a variable leaf
\* stands for a subterm of fa that has children, below a node that was kept.
C17_Witness ==
    /\ fres.op = "unify"
    /\ FreshGeneralisation
    /\ Len(fa.tree) = 3
    /\ Len(fb.tree) = 2
    /\ fres.un.some

\* The substitution of the spec on terms: a variable whose label is a key gives
\* way to the mapped term, any other node keeps label, mark and child order.
RECURSIVE Substituted(_, _)
Substituted(t, ts) ==
    IF t.var /\ t.label \in DOMAIN ts
    THEN ts[t.label]
    ELSE [t EXCEPT !.kids = [i \in DOMAIN t.kids |-> Substituted(t.kids[i], ts)]]

\* The substitutions as terms, each mapped formula taken from its root.
SubsTerms(subs) == [k \in DOMAIN subs |-> TermOf(subs[k], subs[k].root)]

\* C18: fb.substitute(subs) is fb with every variable node whose label is a key
\* replaced by the mapped formula from its root and every other node kept with
\* its label, its variable mark and its child order; the typecode is fb's.
C18_SubstituteReplacesKeyedVariables ==
    fres.op \in {"substitute", "back"} =>
        /\ fres.out # BuildPanicked
        /\ TermOf(fres.out, fres.out.root)
             = Substituted(TermOf(fb, fb.root), SubsTerms(fres.un.subs))
        /\ fres.out.typecode = fb.typecode

\* C18 witness: substitute was called with one key that labels a variable node
\* of fb and another that labels a node of fb that is not a variable, on a
\* formula whose typecode differs from that of the mapped formula.
C18_Witness ==
    /\ fres.op = "substitute"
    /\ \E n \in DOMAIN fb.tree : is_variable(fb, n) /\ fb.tree[n].label \in DOMAIN fres.un.subs
    /\ \E n \in DOMAIN fb.tree : ~is_variable(fb, n) /\ fb.tree[n].label \in DOMAIN fres.un.subs
    /\ Len(fa.tree) > 1
    /\ fa.typecode # fb.typecode

\* C19: when no key of subs is the label of a variable node of fb,
\* fb.substitute(subs) == fb.
C19_SubstituteWithoutKeyedVariableIsIdentity ==
    (/\ fres.op = "substitute"
     /\ \A n \in DOMAIN fb.tree :
            is_variable(fb, n) => fb.tree[n].label \notin DOMAIN fres.un.subs)
        => fres.out # BuildPanicked /\ eq(fres.out, fb)

\* C19 witness: substitute was called on a formula with a variable node, with a
\* key that labels a node of it that is not a variable and no key that labels a
\* variable node.
C19_Witness ==
    /\ fres.op = "substitute"
    /\ fb.variables # {}
    /\ \A n \in DOMAIN fb.tree :
           is_variable(fb, n) => fb.tree[n].label \notin DOMAIN fres.un.subs
    /\ \E n \in DOMAIN fb.tree : fb.tree[n].label \in DOMAIN fres.un.subs

\* C20: fa == fa holds, and fa == fb holds exactly when fb == fa holds.
C20_EqReflexiveSymmetric ==
    fres.op = "eq" => fres.eqs[3] /\ (fres.eqs[1] <=> fres.eqs[2])

\* C20 witness: two formulas of three nodes that differ in their typecodes were
\* compared and found equal.
C20_Witness ==
    /\ fres.op = "eq"
    /\ fa # fb
    /\ Len(fa.tree) = 3
    /\ fres.eqs[1]

\* The label a path leads to in a term, children counted from 1.
RECURSIVE TermAt(_, _, _)
TermAt(t, path, i) ==
    IF i > Len(path) THEN SomeLabel(t.label)
    ELSE IF path[i] \in DOMAIN t.kids THEN TermAt(t.kids[path[i]], path, i + 1)
    ELSE NoLabel

\* C21: fa.get_by_path(path) walks from the root to the path[i]-th child at each
\* step, children counted from 1: the empty path gives the root's label, a path
\* whose steps all exist the label of the node reached, any other path none.
C21_GetByPathWalksChildren ==
    fres.op = "path" =>
        /\ fres.out = TermAt(TermOf(fa, fa.root), fres.path, 1)
        /\ fres.path = <<>> => fres.out = SomeLabel(fa.tree[fa.root].label)

\* C21 witness: a path of two steps was followed in a formula of three nodes
\* and the label of the node reached was returned.
C21_Witness ==
    /\ fres.op = "path"
    /\ Len(fres.path) = 2
    /\ Len(fa.tree) = 3
    /\ fres.out.some

\* The math symbols of the statement a term was parsed from, after the typecode:
\* the math string of the label with each variable of a node that has children
\* standing for the symbols of the next child.
RECURSIVE Yield(_)
RECURSIVE Fill(_, _)
Fill(tokens, kids) ==
    IF tokens = <<>> THEN <<>>
    ELSE IF SymbolType(Head(tokens)) = "Variable"
         THEN Yield(Head(kids)) \o Fill(Tail(tokens), Tail(kids))
         ELSE <<Head(tokens)>> \o Fill(Tail(tokens), kids)
Yield(t) ==
    IF t.kids = <<>> THEN Tail(stmt_math(t.label))
    ELSE Fill(Tail(stmt_math(t.label)), t.kids)

\* C22: the symbols fa.iter() returns are, in order, the math symbols after the
\* typecode of the statement fa was parsed from; the iterator ends with None
\* once it has returned them all and never panics.
C22_FlattenRoundTrip ==
    fres.op = "iter" =>
        LET s == Yield(TermOf(fa, fa.root)) IN
        /\ Len(fres.emitted) <= Len(s)
        /\ fres.emitted = SubSeq(s, 1, Len(fres.emitted))
        /\ fres.ended # "panic"
        /\ fres.ended = "none" => fres.emitted = s
        /\ (fres.ended = "no" /\ fres.emitted = s) => next(fa, fres.stack).item = ItemNone

\* C22 witness: the iterator over a formula whose root has two children has
\* returned None after the five symbols of `( A + B )`.
C22_Witness ==
    /\ fres.op = "iter"
    /\ fres.ended = "none"
    /\ Len(fa.tree[fa.root].kids) = 2
    /\ Len(fres.emitted) = 5

(***************************************************************************)
(*                       CLAIMS ABOUT SEGMENTS                             *)
(***************************************************************************)

\* The ids of a list of segments.
IdsOf(ss) == {ss[i].id : i \in DOMAIN ss}

\* C23: two ids live before a reparse and live after it compare after it as they
\* did before, and over any number of reparses no two ids are ever seen in both
\* orders.
C23_OrderOfLiveIdsKept ==
    /\ \A a \in IdsOf(segsOld.segs) \cap IdsOf(segs), b \in IdsOf(segsOld.segs) \cap IdsOf(segs) :
          <<a, b>> \in EarlierPairs(segsOld.segs) <=> (a # b /\ Earlier(order, a, b))
    /\ \A pr \in segsOld.before \cup EarlierPairs(segs) :
          <<pr[2], pr[1]>> \notin segsOld.before \cup EarlierPairs(segs)
    /\ [i \in DOMAIN segs |-> segs[i].id] = order.ids

\* C23 witness: two pieces loaded before were read again the other way round;
\* the piece now first kept its id, the other could not and got a new one.
C23_Witness ==
    /\ Len(segsOld.segs) = 2
    /\ Len(segs) = 2
    /\ segs[1].piece = segsOld.segs[2].piece
    /\ segs[2].piece = segsOld.segs[1].piece
    /\ segs[1].id = segsOld.segs[2].id
    /\ segs[2].id \notin IdsOf(segsOld.segs)

\* The reparse read the pieces it had, in the same order, the content of exactly
\* one of them changed.
OneContentChanged ==
    /\ Len(segs) = Len(segsOld.segs)
    /\ \A i \in DOMAIN segs : segs[i].piece = segsOld.segs[i].piece
    /\ Cardinality({i \in DOMAIN segs : segs[i].content # segsOld.segs[i].content}) = 1

\* C24: after a reparse of an input that differs from the one before in the
\* content of one segment only, every segment has the id it had, the replaced
\* one included.
C24_IdsKeptWhenOneContentChanges ==
    OneContentChanged => \A i \in DOMAIN segs : segs[i].id = segsOld.segs[i].id

\* C24 witness: of two segments whose ids are not in numeric order, the content
\* of one changed in the last reparse.
C24_Witness ==
    /\ OneContentChanged
    /\ Len(segs) = 2
    /\ segs[1].id > segs[2].id

(***************************************************************************)
(*                CLAIMS ABOUT THE SLOTS OF THE DATABASE                   *)
(***************************************************************************)

\* The passes that have a previous slot, and that slot.
IncrementalPasses == {"name", "scope", "verify"}
PrevSlot(p) ==
    CASE p = "name"   -> "prev_nameset"
      [] p = "scope"  -> "prev_scopes"
      [] p = "verify" -> "prev_verify"

\* C25: a call of parse runs no pass function, and every previous slot holds
\* after it what it held before: empty if it was empty, else the same value.
C25_ParseKeepsPreviousSlots ==
    [][lastCall' = "parse" =>
          /\ \A p \in IncrementalPasses :
                /\ db'[PrevSlot(p)] = db[PrevSlot(p)]
                /\ db[PrevSlot(p)] # None =>
                      heap'[CurSlot(p)][db'[PrevSlot(p)]] = heap[CurSlot(p)][db[PrevSlot(p)]]
          /\ \A input \in 1 .. MaxInput, p \in IncrementalPasses :
                parse(Now, input).db[PrevSlot(p)] = db[PrevSlot(p)]
          /\ started' = [p \in Passes |-> NotRun]
          /\ last' = last]_vars

\* C25 witness: parse has just returned on a database whose previous nameset
\* was computed on other segments than the parse read, and whose current
\* nameset slot is empty.
C25_Witness ==
    /\ lastCall = "parse"
    /\ db["nameset"] = None
    /\ db["prev_nameset"] # None
    /\ heap["nameset"][db["prev_nameset"]] # heap["segments"][db["segments"]]

\* For each pass with a previous slot: a current slot that holds an Arc holds
\* the Arc of the previous slot.
SlotsAgree(d) ==
    \A p \in IncrementalPasses : d[CurSlot(p)] # None => d[PrevSlot(p)] = d[CurSlot(p)]

\* The database as each method that can be called next would leave it.
AfterCalls ==
    {name_pass(Now), scope_pass(Now), verify_pass(Now), outline_pass(Now),
     grammar_pass(Now), stmt_parse_pass(Now)}
      \cup {parse(Now, input) : input \in 1 .. MaxInput}

\* C26: between operations, the current slot of the name, scope and verify
\* passes is empty or holds the same Arc as the previous slot; and a previous
\* slot that holds an Arc is never left empty by an operation, a parse included.
C26_CurrentSharedWithPrevious ==
    /\ [](SlotsAgree(db) /\ \A w \in AfterCalls : SlotsAgree(w.db))
    /\ [][\A p \in IncrementalPasses :
             db[PrevSlot(p)] # None => db'[PrevSlot(p)] # None]_vars

\* C26 witness: the name pass ran again while a caller held the earlier nameset,
\* so the database has a nameset of its own in both slots and the caller another.
C26_Witness ==
    /\ db["nameset"] # None
    /\ db["prev_nameset"] = db["nameset"]
    /\ \E x \in handles : x.kind = "nameset" /\ x.obj # db["nameset"]

\* The pairs (k, q) of kinds of result where k is computed from q: every slot
\* of kind k is to be released before any slot of kind q.
ReleasedFirst ==
    {<<"stmt_parse", "grammar">>, <<"verify", "scopes">>, <<"grammar", "scopes">>,
     <<"scopes", "nameset">>}
      \cup {<<k, "segments">> : k \in Kinds \ {"segments"}}

\* C27: dropping the database releases the slots of every pass before the slots
\* of the passes it depends on, and every pass result before the segment set.
C27_DropReleasesDependentsFirst ==
    \A pr \in ReleasedFirst :
        \A i \in DOMAIN released, j \in DOMAIN released :
            (KindOf(released[i]) = pr[1] /\ KindOf(released[j]) = pr[2]) => i < j

(***************************************************************************)
(*                    CLAIMS ABOUT REENTRANT USE                           *)
(***************************************************************************)

\* Every one of the `concurrency` workers runs a task that waits for the promise
\* of a job still in the queue of the same executor.
AllBlocked ==
    /\ concurrency > 1
    /\ \A w \in 1 .. concurrency :
          /\ wpc[w] = "running"
          /\ nest[w].at \in {"lock", "cvwait"}
          /\ nest[w].child \in queue

\* C28: a task on a worker that waits for the promise of a job queued on the
\* same executor can block forever: once all `concurrency` workers are blocked
\* in such waits they stay blocked, and no queued job is ever dispatched.
C28_BlockedWorkersNeverDispatch ==
    [][AllBlocked => (AllBlocked' /\ queue \subseteq queue'
                      /\ \A w \in 1 .. concurrency : nest'[w].child = nest[w].child)]_vars

\* C28 witness: with two workers, each runs a task waiting on the condition
\* variable of a job that is queued behind it.
C28_Witness ==
    /\ AllBlocked
    /\ \A w \in 1 .. concurrency : nest[w].at = "cvwait"

(***************************************************************************)
(*                    CLAIMS ABOUT sub_eq AND unify                        *)
(***************************************************************************)

\* The sub-formula of f at node n as an ordered labelled tree.
RECURSIVE LabelTree(_, _)
LabelTree(f, n) ==
    [label |-> f.tree[n].label,
     kids |-> [i \in DOMAIN f.tree[n].kids |-> LabelTree(f, f.tree[n].kids[i])]]

\* C29: fa.sub_eq(n, fb, m) returns true exactly when the subtree of fa at n and
\* the subtree of fb at m are the same ordered labelled tree: equal labels, the
\* same number of children, the children equal pair by pair in order.
C29_SubEqIsTreeEquality ==
    fres.op = "sub_eq" =>
        (fres.eqs[1] <=> LabelTree(fa, fres.at[1]) = LabelTree(fb, fres.at[2]))

\* The pairs of nodes unify compares, left to right and depth first, at which the
\* pattern g has a variable: the variable's label with the node of f it meets.
RECURSIVE Occurrences(_, _, _, _)
RECURSIVE OccurrencesFrom(_, _, _, _, _)
OccurrencesFrom(f, n, g, m, i) ==
    IF i > Min(Len(f.tree[n].kids), Len(g.tree[m].kids))
    THEN <<>>
    ELSE Occurrences(f, f.tree[n].kids[i], g, g.tree[m].kids[i])
             \o OccurrencesFrom(f, n, g, m, i + 1)
Occurrences(f, n, g, m) ==
    IF is_variable(g, m)
    THEN <<[label |-> g.tree[m].label, node |-> n]>>
    ELSE IF f.tree[n].label = g.tree[m].label
         THEN OccurrencesFrom(f, n, g, m, 1)
         ELSE <<>>

\* Apart from its variables, the pattern g at m is the tree of f at n.
RECURSIVE Matches(_, _, _, _)
Matches(f, n, g, m) ==
    \/ is_variable(g, m)
    \/ /\ f.tree[n].label = g.tree[m].label
       /\ Len(f.tree[n].kids) = Len(g.tree[m].kids)
       /\ \A i \in DOMAIN g.tree[m].kids :
             Matches(f, f.tree[n].kids[i], g, g.tree[m].kids[i])

\* The first place in occ where the variable of label l is met.
FirstOccurrence(occ, l) ==
    CHOOSE i \in DOMAIN occ :
        occ[i].label = l /\ \A k \in 1 .. (i - 1) : occ[k].label # l

\* C30: in fa.unify(fb), when a variable label of the pattern fb is met a second
\* or later time, the unification goes on only if the subterm of fa there equals
\* the subterm met at the first occurrence, and returns None otherwise; the
\* formula bound to a variable is fa's subterm at the variable's first occurrence.
C30_RepeatedVariableKeepsFirstBinding ==
    fres.op = "unify" =>
        LET occ == Occurrences(fa, fa.root, fb, fb.root)
            Agree == \A i \in DOMAIN occ, j \in DOMAIN occ :
                        (i < j /\ occ[i].label = occ[j].label)
                            => TermOf(fa, occ[i].node) = TermOf(fa, occ[j].node)
        IN  /\ ~Agree => ~fres.un.some
            /\ (Agree /\ Matches(fa, fa.root, fb, fb.root)) => fres.un.some
            /\ fres.un.some =>
                  \A l \in DOMAIN fres.un.subs :
                      /\ \E i \in DOMAIN occ : occ[i].label = l
                      /\ fres.un.subs[l] = sub_formula(fa, occ[FirstOccurrence(occ, l)].node)

\* C30 witness: the pattern holds one variable twice, the unification succeeded
\* on a formula that is not the pattern, and the variable is bound at the first
\* of the two nodes.
C30_Witness ==
    /\ fres.op = "unify"
    /\ fres.un.some
    /\ Len(fb.tree) = 3
    /\ fb.variables = {1, 2}
    /\ fb.tree[1].label = fb.tree[2].label
    /\ fa.variables = {}
    /\ fres.un.subs[fb.tree[1].label].root = 1

(***************************************************************************)
(*                  CLAIMS ABOUT THE FORMULA BUILDER                       *)
(***************************************************************************)

\* C31: reduce(label, var_count, offset, is_variable) on a stack of length
\* len >= var_count + offset takes out the entries at [len - var_count - offset,
\* len - offset), makes one new node of that label with them as its children in
\* order, variable exactly when is_variable, and puts it at len - var_count -
\* offset; the entries above and below are unchanged, the new length is
\* len - var_count + 1.
C31_ReduceReplacesRange ==
    (bcall.op = "reduce"
     /\ Len(bcall.before.stack) >= bcall.var_count + bcall.offset) =>
        LET old  == bcall.before.stack
            len  == Len(old)
            at   == len - bcall.var_count - bcall.offset
            node == Len(bcall.before.formula.tree) + 1
        IN  /\ bld.ok
            /\ Len(bld.stack) = len - bcall.var_count + 1
            /\ bld.stack[at + 1] = node
            /\ Len(bld.formula.tree) = node
            /\ bld.formula.tree[node].label = bcall.label
            /\ bld.formula.tree[node].kids = SubSeq(old, at + 1, len - bcall.offset)
            /\ (node \in bld.formula.variables) <=> bcall.is_var
            /\ \A i \in 1 .. at : bld.stack[i] = old[i]
            /\ \A i \in 1 .. bcall.offset :
                  bld.stack[Len(bld.stack) - bcall.offset + i] = old[len - bcall.offset + i]
            /\ \A n \in 1 .. (node - 1) :
                  /\ bld.formula.tree[n] = bcall.before.formula.tree[n]
                  /\ (n \in bld.formula.variables) <=> (n \in bcall.before.formula.variables)

\* C32: build aborts unless the stack holds exactly one entry, and with one entry
\* returns the formula with that node as root and the given typecode; reduce
\* aborts when the stack holds fewer than var_count + offset entries.
C32_BuildAndReduceAbort ==
    /\ bcall.op = "build" =>
          IF Len(bcall.before.stack) = 1
          THEN bcall.out = [bcall.before.formula EXCEPT
                               !.root = bcall.before.stack[1],
                               !.typecode = bcall.typecode]
          ELSE bcall.out = BuildPanicked
    /\ (bcall.op = "reduce"
        /\ Len(bcall.before.stack) < bcall.var_count + bcall.offset) => ~bld.ok

\* The pairs (i, n) with node n of the builder's tree at or below the i-th
\* stack entry.
Held ==
    UNION {{<<i, n>> : n \in NodesBelow(bld.formula, bld.stack[i])} : i \in DOMAIN bld.stack}

\* The places (parent, position) at which the builder's tree has a child.
ChildPlaces ==
    UNION {{<<p, k>> : k \in DOMAIN bld.formula.tree[p].kids} : p \in DOMAIN bld.formula.tree}

\* C35: after any sequence of reduce calls the stack entries are pairwise
\* distinct, every node created is on the stack or below exactly one stack entry
\* (each node is held, and there are as many holdings as nodes), no node is the
\* child of two nodes (the child places name as many nodes as there are places),
\* and the bit set holds a node id exactly when the node was created with
\* is_variable true.
C35_BuilderForest ==
    bcall.op \in {"start", "reduce"} =>
        /\ Cardinality({bld.stack[i] : i \in DOMAIN bld.stack}) = Len(bld.stack)
        /\ {h[2] : h \in Held} = DOMAIN bld.formula.tree
        /\ Cardinality(Held) = Len(bld.formula.tree)
        /\ Cardinality({bld.formula.tree[pk[1]].kids[pk[2]] : pk \in ChildPlaces})
              = Cardinality(ChildPlaces)
        /\ DOMAIN bcall.made = DOMAIN bld.formula.tree
        /\ bld.formula.variables = {n \in DOMAIN bcall.made : bcall.made[n]}

\* C35 witness: two calls of reduce went through, the second took a node with a
\* child as the child of a variable node and left an entry above it.
C35_Witness ==
    /\ bcall.op = "reduce"
    /\ bld.ok
    /\ bcall.steps = 2
    /\ bcall.offset = 1
    /\ bcall.var_count = 1
    /\ bcall.is_var
    /\ Len(bld.stack) = 2
    /\ Cardinality(NodesBelow(bld.formula, bld.stack[1])) = 3

\* C37: reduce adds var_count and offset without 8-bit overflow: for all
\* var_count and offset up to 255 whose sum, sums above 255 included, does not
\* exceed the length of the stack, the check passes, exactly var_count children
\* are popped and the offset entries on top are left.
C37_ReduceSumDoesNotOverflow ==
    (bcall.op = "reduce"
     /\ bcall.var_count \in 0 .. U8Max /\ bcall.offset \in 0 .. U8Max
     /\ bcall.var_count + bcall.offset <= Len(bcall.before.stack)) =>
        /\ bld.ok
        /\ Len(bld.formula.tree[Len(bld.formula.tree)].kids) = bcall.var_count
        /\ SubSeq(bld.stack, Len(bld.stack) - bcall.offset + 1, Len(bld.stack))
              = SubSeq(bcall.before.stack,
                       Len(bcall.before.stack) - bcall.offset + 1,
                       Len(bcall.before.stack))

\* C33: equality of formulas is transitive: whenever fa == fb and fb == fc,
\* also fa == fc.
C33_EqTransitive ==
    fres.op = "chain" => ((fres.eqs[1] /\ fres.eqs[2]) => fres.eqs[3])

(***************************************************************************)
(*                 CLAIMS ABOUT THE DISPATCH OF JOBS                       *)
(***************************************************************************)

\* The workers that have popped job j and not ended it; whether the closure of
\* job j has run to its end.
HoldersOfJob(j) == {w \in DOMAIN wpc : wjob[w] = j}
Ran(j) == runner[j] # NotRunYet

\* C34: with concurrency > 1 every job pushed is taken by one worker only and
\* its closure is invoked once only: at any time a job is either in the queue,
\* or with exactly one worker, or done, and a worker starts the closure of a job
\* only if that closure has never been started (the cell is still None, no
\* result was stored, no other worker has the job), so the task is there to take.
C34_JobsRunExactlyOnce ==
    /\ [](concurrency > 1 =>
            \A j \in Submitted :
                Cardinality(HoldersOfJob(j)) + (IF j \in queue THEN 1 ELSE 0)
                    + (IF Ran(j) THEN 1 ELSE 0) = 1)
    /\ [][\A w \in DOMAIN wpc :
             (wpc[w] = "popped" /\ wpc'[w] = "running") =>
                 /\ ~Ran(wjob[w])
                 /\ cell[wjob[w]] = CellNone
                 /\ firstStarted # wjob[w]
                 /\ \A v \in DOMAIN wpc \ {w} : wjob[v] # wjob[w]]_vars

\* C34 witness: two workers run the closures of two jobs at the same time.
C34_Witness ==
    /\ concurrency > 1
    /\ wpc[1] = "running"
    /\ wpc[2] = "running"
    /\ wjob[1] # wjob[2]

(***************************************************************************)
(*                CLAIMS ABOUT THE PASSES OF substitute                    *)
(***************************************************************************)

\* The paths (child positions from the root, counted from 1) to the variable
\* nodes of the term t whose labels are keys of ts.
RECURSIVE KeyedPaths(_, _)
KeyedPaths(t, ts) ==
    IF t.var /\ t.label \in DOMAIN ts
    THEN {<<>>}
    ELSE UNION {{<<i>> \o p : p \in KeyedPaths(t.kids[i], ts)} : i \in DOMAIN t.kids}

\* The subterm of t a path leads to.
RECURSIVE SubtermAt(_, _)
SubtermAt(t, path) ==
    IF path = <<>> THEN t ELSE SubtermAt(t.kids[Head(path)], Tail(path))

\* An inserted term holds a variable that a further pass would replace.
HoldsKeyedVariable(t, ts) ==
    \E p \in KeyedPaths(t, ts) : ts[SubtermAt(t, p).label] # SubtermAt(t, p)

\* C36: substitute is simultaneous and makes one pass: where fb has a variable
\* whose label is a key, the result has the mapped formula as it is, the
\* variable nodes inside it copied and not substituted again, even when their
\* labels are keys themselves.
C36_SubstituteSinglePass ==
    fres.op = "substitute" =>
        LET ts == SubsTerms(fres.un.subs)
            tb == TermOf(fb, fb.root)
        IN  /\ fres.out # BuildPanicked
            /\ \A p \in KeyedPaths(tb, ts) :
                  SubtermAt(TermOf(fres.out, fres.out.root), p) = ts[SubtermAt(tb, p).label]

\* C36 witness: a variable of fb was replaced by a formula that holds a variable
\* whose label is a key mapped to something else.
C36_Witness ==
    /\ fres.op = "substitute"
    /\ fres.out # BuildPanicked
    /\ \E p \in KeyedPaths(TermOf(fb, fb.root), SubsTerms(fres.un.subs)) :
          HoldsKeyedVariable(SubtermAt(TermOf(fres.out, fres.out.root), p),
                             SubsTerms(fres.un.subs))

====
